---- MODULE Spec2Model ----
(***************************************************************************)
(* Key-name model of libelektra (src/src/libelektra/keyname.c).            *)
(*                                                                         *)
(* A Key is modelled at the level of its name buffer: key->key is a byte   *)
(* array that holds the escaped name, its NUL, and behind it (at offset    *)
(* keySize) the unescaped name of keyUSize bytes.  Bytes are one-character *)
(* strings, NUL is the byte "NUL".  A NULL key->key is the empty array.    *)
(***************************************************************************)
EXTENDS Integers, Sequences, FiniteSets, TLC

VARIABLES
    key,       \* the Key object: [key, keySize, keyUSize, flags, owner]
    heapFill,  \* what uninitialised heap bytes read as in this run
    pc,        \* "ready": the caller may call; "returned": a call has returned;
               \* "crashed": a call ran into undefined behaviour
    last,      \* the call that returned last: [op, arg, ret, pre]
    universe,  \* which keys exist for the key-sets (see KeyNames)
    keyset,    \* the KeySet objects: [live, keys, cursor] each
    keyRef,    \* the reference count of each key
    keyHeld,   \* how often the caller holds each key by keyIncRef
    keyFreed,  \* the keys keyDel has freed
    kdb,       \* the key database: [stored, got] (stored keys, parents got)
    plugin,    \* the validation plugin's call: [returned, cursor, parentKey]
    files,     \* the two files compare_line_files reads: [org, gen, line]
    lexer,     \* the TOML lexer: [stack, state, line]
    buffer     \* the TOML lexer's string buffer: [data, index, size]

nameVars == <<key, heapFill, pc, last>>

ksVars == <<universe, keyset, keyRef, keyHeld, keyFreed>>

appVars == <<kdb, plugin, files, lexer, buffer>>

vars == <<key, heapFill, pc, last, universe, keyset, keyRef, keyHeld, keyFreed,
          kdb, plugin, files, lexer, buffer>>

\* ------------------------------------------------------------------ bytes

NUL == "NUL"
KDB_PATH_SEPARATOR == "/"
KDB_PATH_ESCAPE == "\\"

\* A NULL char pointer argument (distinct from every C string).
NullStr == <<"NULLPTR">>
IsNull(s) == s = NullStr

Min(a, b) == IF a < b THEN a ELSE b
Max(a, b) == IF a > b THEN a ELSE b

\* n copies of byte c
Rep(c, n) == [i \in 1..n |-> c]

\* the bytes of a string literal
Str(s) == [i \in 1..Len(s) |-> SubSeq(s, i, i)]

\* buf[i] with a 0-based offset, as in C
ByteAt(buf, i) == buf[i + 1]

\* buf[i] = c
PutByte(buf, i, c) == [j \in 1..Len(buf) |-> IF j = i + 1 THEN c ELSE buf[j]]

\* memcpy (buf + i, s, Len(s))
memcpy(buf, i, s) ==
    [j \in 1..Len(buf) |-> IF j > i /\ j <= i + Len(s) THEN s[j - i] ELSE buf[j]]

\* the first offset >= i that holds NUL (the end of the array when none does)
RECURSIVE NulFrom(_, _)
NulFrom(buf, i) ==
    IF i >= Len(buf) THEN Len(buf)
    ELSE IF buf[i + 1] = NUL THEN i
    ELSE NulFrom(buf, i + 1)

\* the C string that starts at offset i of buf
CStr(buf, i) == SubSeq(buf, i + 1, NulFrom(buf, i))

\* strlen + 1
elektraStrLen(s) == Len(s) + 1

\* realloc: keeps the old bytes, new bytes are uninitialised
elektraRealloc(buf, n) ==
    IF n <= Len(buf) THEN SubSeq(buf, 1, n)
    ELSE buf \o Rep(heapFill, n - Len(buf))

\* malloc (l) + memcpy of l bytes from the C string s; bytes behind the
\* terminating NUL of s are whatever lies behind the argument in memory
elektraStrNDup(s, l) ==
    [i \in 1..l |-> IF i <= Len(s) THEN s[i]
                    ELSE IF i = Len(s) + 1 THEN NUL
                    ELSE heapFill]

\* ------------------------------------------------- one-level tokenisation

RECURSIVE SkipSlashes(_, _)
SkipSlashes(s, i) ==
    IF i < Len(s) /\ s[i + 1] = KDB_PATH_SEPARATOR THEN SkipSlashes(s, i + 1) ELSE i

\* the offset at which the level that starts at i ends: the first '/' that
\* is preceded by an even number of backslashes, or the end of s
RECURSIVE LevelEnd(_, _, _)
LevelEnd(s, i, escapeCount) ==
    IF i >= Len(s) THEN i
    ELSE IF s[i + 1] = KDB_PATH_ESCAPE THEN LevelEnd(s, i + 1, escapeCount + 1)
    ELSE IF s[i + 1] = KDB_PATH_SEPARATOR /\ escapeCount % 2 = 0 THEN i
    ELSE LevelEnd(s, i + 1, 0)

\* keyNameGetOneLevel (s + from, &size): p is the offset of the level found
\* (p = Len(s) when there is none), size its length
keyNameGetOneLevel(s, from) ==
    LET p == SkipSlashes(s, Min(from, Len(s)))
    IN [p |-> p, size |-> LevelEnd(s, p, 0) - p]

\* the levels of s from offset `from` on, each as [p, size]
RECURSIVE LevelsFrom(_, _)
LevelsFrom(s, from) ==
    LET l == keyNameGetOneLevel(s, from)
    IN IF l.p >= Len(s) THEN <<>>
       ELSE <<l>> \o LevelsFrom(s, l.p + l.size)

Part(s, l) == SubSeq(s, l.p + 1, l.p + l.size)

\* ------------------------------------------------------------ validation

RECURSIVE TrailingEscapes(_, _)
TrailingEscapes(s, i) ==
    IF i >= 1 /\ s[i] = KDB_PATH_ESCAPE THEN 1 + TrailingEscapes(s, i - 1) ELSE 0

\* a name must not end with an unequal (odd) number of backslashes
elektraValidateKeyName(name, size) ==
    TrailingEscapes(name, size - 1) % 2 = 0

\* ------------------------------------------------- escaping, unescaping

RECURSIVE LeadingEscapes(_, _)
LeadingEscapes(s, i) ==
    IF i <= Len(s) /\ s[i] = KDB_PATH_ESCAPE THEN 1 + LeadingEscapes(s, i + 1) ELSE 0

\* the parts that stand for themselves only when escaped
SpecialParts == {<<"%">>, <<".">>, <<".", ".">>}

\* the body of a part: N backslashes before '/' give N/2 backslashes and a
\* literal '/', N backslashes at the end give N/2, all others stay
RECURSIVE UnescapeRun(_, _, _)
UnescapeRun(s, i, count) ==
    IF i > Len(s) THEN Rep(KDB_PATH_ESCAPE, count \div 2)
    ELSE IF s[i] = KDB_PATH_ESCAPE THEN UnescapeRun(s, i + 1, count + 1)
    ELSE IF s[i] = KDB_PATH_SEPARATOR
         THEN Rep(KDB_PATH_ESCAPE, count \div 2) \o <<s[i]>> \o UnescapeRun(s, i + 1, 0)
    ELSE Rep(KDB_PATH_ESCAPE, count) \o <<s[i]>> \o UnescapeRun(s, i + 1, 0)

\* one escaped part to its raw bytes: % is the empty part, \%, \. and \..
\* (behind any number of backslashes) lose one backslash
elektraUnescapeKeyNamePart(part) ==
    LET n == LeadingEscapes(part, 1)
        rest == SubSeq(part, n + 1, Len(part))
    IN IF part = <<"%">> THEN <<>>
       ELSE IF n > 0 /\ rest \in SpecialParts THEN Rep(KDB_PATH_ESCAPE, n - 1) \o rest
       ELSE UnescapeRun(part, 1, 0)

RECURSIVE UnescapeLevels(_, _)
UnescapeLevels(s, ls) ==
    IF ls = <<>> THEN <<>>
    ELSE elektraUnescapeKeyNamePart(Part(s, Head(ls))) \o <<NUL>>
         \o UnescapeLevels(s, Tail(ls))

\* elektraUnescapeKeyName (source, dest): the bytes written to dest; the
\* cascading root is a lone NUL
elektraUnescapeKeyName(source) ==
    (IF Len(source) > 0 /\ source[1] = KDB_PATH_SEPARATOR THEN <<NUL>> ELSE <<>>)
    \o UnescapeLevels(source, LevelsFrom(source, 0))

RECURSIVE EscapeRun(_, _, _)
EscapeRun(s, i, count) ==
    IF i > Len(s) THEN Rep(KDB_PATH_ESCAPE, count)
    ELSE IF s[i] = KDB_PATH_ESCAPE THEN <<s[i]>> \o EscapeRun(s, i + 1, count + 1)
    ELSE IF s[i] = KDB_PATH_SEPARATOR
         THEN Rep(KDB_PATH_ESCAPE, count + 1) \o <<s[i]>> \o EscapeRun(s, i + 1, 0)
    ELSE <<s[i]>> \o EscapeRun(s, i + 1, 0)

\* raw bytes to one escaped part
elektraEscapeKeyNamePart(source) ==
    LET n == LeadingEscapes(source, 1)
        rest == SubSeq(source, n + 1, Len(source))
    IN IF source = <<>> THEN <<"%">>
       ELSE IF rest \in SpecialParts THEN Rep(KDB_PATH_ESCAPE, n + 1) \o rest
       ELSE EscapeRun(source, 1, 0)

\* ------------------------------------------------------------ namespaces

NsSpec == Str("spec")
NsProc == Str("proc")
NsDir == Str("dir")
NsUser == Str("user")
NsSystem == Str("system")

IsPrefix(p, s) == Len(p) <= Len(s) /\ SubSeq(s, 1, Len(p)) = p

\* name is ns or starts with ns/
keyNameIsNs(ns, name) == name = ns \/ IsPrefix(ns \o <<"/">>, name)

keyNameIsUser(name) == keyNameIsNs(NsUser, name) \/ IsPrefix(NsUser \o <<":">>, name)

keyGetNameNamespace(name) ==
    IF IsNull(name) THEN "KEY_NS_EMPTY"
    ELSE IF name = <<>> THEN "KEY_NS_EMPTY"
    ELSE IF name[1] = "/" THEN "KEY_NS_CASCADING"
    ELSE IF keyNameIsNs(NsSpec, name) THEN "KEY_NS_SPEC"
    ELSE IF keyNameIsNs(NsProc, name) THEN "KEY_NS_PROC"
    ELSE IF keyNameIsNs(NsDir, name) THEN "KEY_NS_DIR"
    ELSE IF keyNameIsUser(name) THEN "KEY_NS_USER"
    ELSE IF keyNameIsNs(NsSystem, name) THEN "KEY_NS_SYSTEM"
    ELSE "KEY_NS_META"

\* ------------------------------------------------------------- the Key

KEY_FLAG_SYNC == "KEY_FLAG_SYNC"
KEY_FLAG_RO_NAME == "KEY_FLAG_RO_NAME"

\* keyNew (0): no name, no owner
NewKey == [key |-> <<>>, keySize |-> 0, keyUSize |-> 0, flags |-> {}, owner |-> <<>>]

keyName(k) == IF k.key = <<>> THEN <<>> ELSE CStr(k.key, 0)

keyGetNameSize(k) == IF k.key = <<>> THEN 1 ELSE k.keySize

keyGetUnescapedNameSize(k) == IF k.key = <<>> THEN 0 ELSE k.keyUSize

\* the keyUSize bytes at key->key + keySize
keyUnescapedName(k) ==
    IF k.key = <<>> THEN <<>>
    ELSE SubSeq(k.key, k.keySize + 1, Min(k.keySize + k.keyUSize, Len(k.key)))

keyGetNamespace(k) == keyGetNameNamespace(IF k.key = <<>> THEN NullStr ELSE CStr(k.key, 0))

\* what a read in front of the name buffer yields
OutOfBounds == <<"OUT OF BOUNDS">>

\* while (*(--p)) base = p;  -1 if the scan leaves the buffer
RECURSIVE BaseStart(_, _)
BaseStart(buf, p) ==
    IF p - 1 < 0 THEN -1
    ELSE IF ByteAt(buf, p - 1) = NUL THEN p
    ELSE BaseStart(buf, p - 1)

keyBaseName(k) ==
    IF k.key = <<>> THEN <<>>
    ELSE LET base == BaseStart(k.key, k.keySize + k.keyUSize - 1)
         IN IF base < 0 THEN OutOfBounds
            ELSE IF base # k.keyUSize THEN CStr(k.key, base)
            ELSE <<>>

keySetOwner(k, newOwner) ==
    IF IsNull(newOwner) \/ newOwner = <<>> THEN [k EXCEPT !.owner = <<>>]
    ELSE [k EXCEPT !.owner = newOwner]

elektraFinalizeName(k) ==
    LET b == PutByte(k.key, k.keySize - 1, NUL)
        u == elektraUnescapeKeyName(CStr(b, 0))
    IN [k EXCEPT !.key = memcpy(b, k.keySize, u),
                 !.keyUSize = Len(u),
                 !.flags = @ \cup {KEY_FLAG_SYNC}]

\* elektraFinalizeEmptyName that allocates nothing: the empty name is the
\* missing name
elektraFinalizeEmptyNameNoBuffer(k) ==
    [k EXCEPT !.key = <<>>, !.keySize = 0, !.keyUSize = 0,
              !.flags = @ \cup {KEY_FLAG_SYNC}]

elektraFinalizeEmptyName(k) ==
    [k EXCEPT !.key = <<NUL, NUL>>, !.keySize = 1, !.keyUSize = 1,
              !.flags = @ \cup {KEY_FLAG_SYNC}]

\* elektraRemoveKeyName that resets the sizes but keeps key->key
elektraRemoveKeyNameKeepsBuffer(k) ==
    [k EXCEPT !.keySize = 0, !.keyUSize = 0]

elektraRemoveKeyName(k) ==
    [k EXCEPT !.key = <<>>, !.keySize = 0, !.keyUSize = 0]

\* ---------------------------------------------------- keyAddName

\* elektraRemoveOneLevel without the test for a cascading name: a ".." at
\* the root strips every name down to one byte
elektraRemoveOneLevelAnyRoot(st) ==
    LET tmp == PutByte(st.key, st.keySize, NUL)
        ls == LevelsFrom(CStr(tmp, 0), 0)
        levels == Len(ls)
    IN IF levels > 1
       THEN LET n == st.keySize - (ls[levels].size + 1)
            IN [st EXCEPT !.key = PutByte(PutByte(tmp, n, NUL), st.keySize,
                                          ByteAt(st.key, st.keySize)),
                          !.keySize = n]
       ELSE [st EXCEPT !.keySize = 1, !.avoidSlash = TRUE]

\* Removes one level of the name key[0 .. keySize) that keyAddName is
\* building; st is [key, keySize, avoidSlash].
elektraRemoveOneLevel(st) ==
    LET save == ByteAt(st.key, st.keySize)
        tmp == PutByte(st.key, st.keySize, NUL)
        x == CStr(tmp, 0)
        ls == LevelsFrom(x, 0)
        levels == Len(ls)
        sizeOfLastLevel == IF levels > 0 THEN ls[levels].size ELSE 0
    IN IF levels > 1
       THEN LET n == st.keySize - (sizeOfLastLevel + 1)
            IN [st EXCEPT !.key = PutByte(PutByte(tmp, n, NUL), st.keySize, save),
                          !.keySize = n]
       ELSE IF tmp[1] = KDB_PATH_SEPARATOR
       THEN [st EXCEPT !.keySize = 1, !.avoidSlash = TRUE]
       ELSE st

\* the loop of keyAddName over the levels of newName from offset pos on
RECURSIVE keyAddNameLoop(_, _, _)
keyAddNameLoop(st, newName, pos) ==
    LET l == keyNameGetOneLevel(newName, pos)
        p == Part(newName, l)
        next == l.p + l.size
    IN IF l.p >= Len(newName) THEN st
       ELSE IF p = <<".">> THEN keyAddNameLoop(st, newName, next)
       ELSE IF p = <<".", ".">>
       THEN keyAddNameLoop(elektraRemoveOneLevel(st), newName, next)
       ELSE LET st1 == IF ~st.avoidSlash
                       THEN [st EXCEPT !.key = PutByte(@, st.keySize, KDB_PATH_SEPARATOR),
                                       !.keySize = @ + 1]
                       ELSE [st EXCEPT !.avoidSlash = FALSE]
                st2 == [st1 EXCEPT !.key = memcpy(@, st1.keySize, p),
                                   !.keySize = @ + l.size]
            IN keyAddNameLoop(st2, newName, next)

\* keyAddName (key, newName): [k |-> the key afterwards, ret |-> the result,
\* ub |-> the call ran into undefined behaviour]
keyAddName(k, newName) ==
    IF KEY_FLAG_RO_NAME \in k.flags THEN [k |-> k, ret |-> -1, ub |-> FALSE]
    ELSE IF k.key = <<>> THEN [k |-> k, ret |-> -1, ub |-> FALSE]
    ELSE IF IsNull(newName) THEN [k |-> k, ret |-> 0, ub |-> FALSE]
    ELSE IF elektraStrLen(newName) < 2 THEN [k |-> k, ret |-> 0, ub |-> FALSE]
    ELSE IF ~elektraValidateKeyName(newName, elektraStrLen(newName)) THEN [k |-> k, ret |-> -1, ub |-> FALSE]
    ELSE LET origSize == k.keySize
             newSize == origSize + elektraStrLen(newName)
             buf == elektraRealloc(k.key, newSize * 2)
             avoidSlash == IF buf[1] = KDB_PATH_SEPARATOR THEN k.keySize = 2 ELSE FALSE
             st == keyAddNameLoop([key |-> buf, keySize |-> k.keySize - 1,
                                   avoidSlash |-> avoidSlash], newName, 0)
             k1 == [k EXCEPT !.key = st.key, !.keySize = st.keySize + 1]
         IN IF origSize = k1.keySize THEN [k |-> k1, ret |-> 0, ub |-> FALSE]
            ELSE [k |-> elektraFinalizeName(k1), ret |-> k1.keySize, ub |-> FALSE]

\* ---------------------------------------------------- keySetName

\* sets keySize, keyUSize (the offset behind the root in newName) and the
\* owner for a name of the user namespace
elektraHandleUserName(k, newName) ==
    LET userLength == 5
        k1 == [k EXCEPT !.keySize = userLength, !.keyUSize = userLength]
    IN IF Len(newName) < userLength \/ newName[userLength] = KDB_PATH_SEPARATOR THEN k1
       ELSE LET uSize == keyNameGetOneLevel(newName, 0).size
                owner == SubSeq(newName, userLength + 1, uSize)
            IN keySetOwner([k1 EXCEPT !.keyUSize = uSize + 1], owner)

\* keySize and keyUSize of the root of newName, per namespace
RootSizes(k, newName, ns) ==
    CASE ns = "KEY_NS_CASCADING" -> [k EXCEPT !.keyUSize = 1, !.keySize = 2]
      [] ns = "KEY_NS_SPEC" -> [k EXCEPT !.keyUSize = 5, !.keySize = 5]
      [] ns = "KEY_NS_PROC" -> [k EXCEPT !.keyUSize = 5, !.keySize = 5]
      [] ns = "KEY_NS_DIR" -> [k EXCEPT !.keyUSize = 4, !.keySize = 4]
      [] ns = "KEY_NS_USER" -> elektraHandleUserName(k, newName)
      [] ns = "KEY_NS_SYSTEM" -> [k EXCEPT !.keyUSize = 7, !.keySize = 7]

\* elektraKeySetName (key, newName, 0)
elektraKeySetName(k, newName) ==
    IF KEY_FLAG_RO_NAME \in k.flags THEN [k |-> k, ret |-> -1, ub |-> FALSE]
    ELSE LET k0 == keySetOwner(elektraRemoveKeyName(k), NullStr)
             ns == keyGetNameNamespace(newName)
         IN IF ns = "KEY_NS_EMPTY" THEN [k |-> elektraFinalizeEmptyName(k0), ret |-> 0, ub |-> FALSE]
            ELSE IF ns = "KEY_NS_META" THEN [k |-> k0, ret |-> -1, ub |-> FALSE]
            ELSE LET k1 == RootSizes(k0, newName, ns)
                     k2 == [k1 EXCEPT !.key = elektraStrNDup(newName, k1.keySize * 2)]
                     length == elektraStrLen(newName)
                 IN IF length = k2.keyUSize \/ length = k2.keySize
                    THEN LET k3 == elektraFinalizeName(k2)
                         IN [k |-> k3, ret |-> k3.keyUSize, ub |-> FALSE]
                    ELSE LET k3 == [k2 EXCEPT !.key = PutByte(@, k2.keySize - 1, NUL)]
                             r == keyAddName(k3, SubSeq(newName, k3.keyUSize + 1, Len(newName)))
                         IN IF r.ret = -1 THEN [k |-> elektraRemoveKeyName(r.k), ret |-> -1, ub |-> FALSE]
                            ELSE r

\* keySetName without the test of KEY_FLAG_RO_NAME
keySetNameIgnoringLock(k, newName) ==
    elektraKeySetName([k EXCEPT !.flags = @ \ {KEY_FLAG_RO_NAME}], newName)

keySetName(k, newName) == elektraKeySetName(k, newName)

\* ---------------------------------- keyAddBaseName, keySetBaseName

keyAddBaseName(k, baseName) ==
    IF IsNull(baseName) THEN [k |-> k, ret |-> k.keySize, ub |-> FALSE]
    ELSE IF KEY_FLAG_RO_NAME \in k.flags THEN [k |-> k, ret |-> -1, ub |-> FALSE]
    ELSE IF k.key = <<>> THEN [k |-> k, ret |-> -1, ub |-> FALSE]
    ELSE LET escaped == elektraEscapeKeyNamePart(baseName)
             size == Len(escaped)
             keySize == k.keySize + size + 1
             buf == elektraRealloc(k.key, keySize * 2)
             b1 == PutByte(buf, keySize - size - 2, KDB_PATH_SEPARATOR)
             b2 == memcpy(b1, keySize - size - 1, escaped)
             k1 == elektraFinalizeName([k EXCEPT !.key = b2, !.keySize = keySize])
         IN [k |-> k1, ret |-> k1.keySize, ub |-> FALSE]

keySetBaseName(k, baseName) ==
    IF KEY_FLAG_RO_NAME \in k.flags THEN [k |-> k, ret |-> -1, ub |-> FALSE]
    ELSE IF k.key = <<>> THEN [k |-> k, ret |-> -1, ub |-> FALSE]
    ELSE LET ls == LevelsFrom(CStr(k.key, 0), 0)
             searchBaseName == IF ls = <<>> THEN 0 ELSE ls[Len(ls)].p
             searchBaseSize == IF ls = <<>> THEN 0 ELSE ls[Len(ls)].size + 1
         IN IF ls = <<>> \/ searchBaseName = 0 THEN [k |-> k, ret |-> -1, ub |-> FALSE]
            ELSE LET k1 == [k EXCEPT !.keySize = @ - searchBaseSize]
                 IN IF k1.keySize < 1 THEN [k |-> k, ret |-> 0, ub |-> TRUE]
                    ELSE IF IsNull(baseName)
                    THEN LET k2 == elektraFinalizeName(k1)
                         IN [k |-> k2, ret |-> k2.keySize, ub |-> FALSE]
                    ELSE LET escaped == elektraEscapeKeyNamePart(baseName)
                             sizeEscaped == elektraStrLen(escaped)
                             buf == elektraRealloc(k1.key, (k1.keySize + sizeEscaped) * 2)
                             b1 == PutByte(buf, k1.keySize - 1, KDB_PATH_SEPARATOR)
                             b2 == memcpy(b1, k1.keySize, escaped \o <<NUL>>)
                             k2 == elektraFinalizeName(
                                       [k1 EXCEPT !.key = b2, !.keySize = @ + sizeEscaped])
                         IN [k |-> k2, ret |-> k2.keySize, ub |-> FALSE]

\* ------------------------------------------------------------- inputs

\* The arguments are all byte strings up to a length over the bytes that
\* the name grammar treats specially and one ordinary byte, and the names
\* the documentation gives as examples.
MaxLen == 1
MaxBaseLen == 0

\* Calls are made on a key as long as its name has at most MaxTail bytes
\* behind its root.
MaxTail == MaxLen + 1

NameChars == {"/", ".", "\\", "a"}
BaseChars == NameChars \cup {"%"}

Strs(chars, n) == UNION {[1..m -> chars] : m \in 0..n}

NsRoots == {<<>>, NsUser}

SetNameExamples ==
    { Str("user///sw/../sw//././MyApp"), Str("/a//b"), Str("/a/./b"), Str("/a/../b"),
      Str("/../a"), Str("system/.."), Str("system/../.."), Str("user/a/.."),
      Str("/a/.."), Str("user:o/a"), Str("user:o"), Str("spec/a"), Str("proc"),
      Str("dir/a"), Str("a"), Str("user/a\\"), Str("system"), Str("system/a"), Str("user/a"),
      Str("system/dir1/dir2/key1") }

AddNameExamples ==
    { Str("../b"), Str("../bc/../d"), Str("bb/../../c"), Str("a/b"), Str("../..") }

BaseNameExamples ==
    { Str("a"), Str("."), Str(".."), Str("%"), Str("/"), Str("\\"), Str("key2"), Str("my.key") }

SetNameArgs ==
    {NullStr} \cup {r \o s : r \in NsRoots, s \in Strs(NameChars, MaxLen)}
    \cup SetNameExamples
AddNameArgs == {NullStr} \cup Strs(NameChars, MaxLen) \cup AddNameExamples
BaseNameArgs == {NullStr} \cup Strs(BaseChars, MaxBaseLen) \cup BaseNameExamples

\* the bytes of name behind its root
TailLen(name) ==
    IF name = <<>> THEN 0
    ELSE IF name[1] = KDB_PATH_SEPARATOR THEN Len(name) - 1
    ELSE Len(name) - keyNameGetOneLevel(name, 0).size

Small(k) == TailLen(keyName(k)) <= MaxTail

\* ------------------------------------------------------------ key-sets

\* The bytes that occur in names, in the order of their byte values.
ByteOrder == <<NUL>> \o Str("%./0123456789:ABCDEFGHIJKLMNOPQRSTUVWXYZ\\_abcdefghijklmnopqrstuvwxyz")

ByteValue(c) == CHOOSE i \in 1..Len(ByteOrder) : ByteOrder[i] = c

\* memcmp order of two unescaped names, the shorter first on a tie
RECURSIVE BytesLess(_, _)
BytesLess(a, b) ==
    IF b = <<>> THEN FALSE
    ELSE IF a = <<>> THEN TRUE
    ELSE IF Head(a) # Head(b) THEN ByteValue(Head(a)) < ByteValue(Head(b))
    ELSE BytesLess(Tail(a), Tail(b))

\* The keys a run works with are objects 1..4 with fixed names; the
\* universe selects which.
KeyNames ==
    [order |-> <<Str("system/a"), Str("system/b"), Str("user/a"), Str("system/a")>>,
     cut |-> <<Str("user"), Str("user/tests"), Str("user/tests/a"), Str("user/other")>>,
     lookup |-> <<Str("spec/p"), Str("user/p"), Str("system/p"), Str("user/q")>>]

Universes == {"order", "cut", "lookup"}

KeyIds == 1..4

\* the names given to ksCut and to ksLookupByName
CutPoints == [order |-> {Str("system"), Str("user/a")},
              cut |-> {Str("user/tests"), Str("user"), Str("user/t"), Str("system")},
              lookup |-> {Str("user")}]

LookupNames == [order |-> {Str("system/a")},
                cut |-> {Str("user/tests")},
                lookup |-> {Str("/p"), Str("/q"), Str("/r"), Str("user/p")}]

NoKey == 0

KsIds == {1, 2}

\* the key-set the caller walks, pops from and looks up in; the other one is
\* only built, appended, cut into and deleted
WalkedIds == {1}

NoKeySet == [live |-> FALSE, keys |-> <<>>, cursor |-> -1]

\* the key-set part of the state, as one value
KsState == [keyset |-> keyset, keyRef |-> keyRef, keyHeld |-> keyHeld, keyFreed |-> keyFreed]

\* the unescaped names of the keys, the sort keys: <<universe, key, name>>
UNames == {<<u, k, elektraUnescapeKeyName(KeyNames[u][k])>> : u \in Universes, k \in KeyIds}

UName(k) == (CHOOSE e \in UNames : e[1] = universe /\ e[2] = k)[3]

\* <<universe, j, k>>: the name of key j sorts before the name of key k
KeyOrder ==
    {<<p[1][1], p[1][2], p[2][2]>> :
        p \in {q \in UNames \X UNames : q[1][1] = q[2][1] /\ BytesLess(q[1][3], q[2][3])}}

NsDefault == Str("default")

\* (the namespaces in the order in which their keys lie in a key-set)
CascadingOrderOfKeySet == <<NsDefault, NsDir, NsProc, NsSpec, NsSystem, NsUser>>

\* the namespaces a cascading lookup tries, in this order
CascadingOrder == <<NsSpec, NsProc, NsDir, NsUser, NsSystem, NsDefault>>

\* the names a lookup or a cut compares with the keys, each with its
\* unescaped form
ComparedNames ==
    CutPoints.order \cup CutPoints.cut \cup CutPoints.lookup
    \cup LookupNames.order \cup LookupNames.cut \cup LookupNames.lookup
    \cup {CascadingOrder[i] \o n : i \in 1..Len(CascadingOrder), n \in LookupNames.lookup}

UnescapedNames == {<<n, elektraUnescapeKeyName(n)>> : n \in ComparedNames}

UnescapedName(n) == (CHOOSE e \in UnescapedNames : e[1] = n)[2]

\* the least element of a set of indexes, 0 if there is none
FirstIndex(S) == IF S = {} THEN 0 ELSE CHOOSE i \in S : \A j \in S : i <= j

\* index of the key of keys that has the name `name`, 0 if there is none
ksSearch(keys, name) == FirstIndex({i \in 1..Len(keys) : UName(keys[i]) = name})

\* (a key-set that takes every new key at its end)
InsertPosAtEnd(keys, k) == Len(keys) + 1

\* where key k, of a name not yet in keys, goes
InsertPos(keys, k) ==
    Cardinality({i \in 1..Len(keys) : <<universe, keys[i], k>> \in KeyOrder}) + 1

\* keyDecRef followed by keyDel: the key is freed once nothing refers to it
keyDecRefDel(st, k) ==
    [st EXCEPT !.keyRef[k] = @ - 1,
               !.keyFreed = IF st.keyRef[k] = 1 THEN @ \cup {k} ELSE @]

\* (a replacement that leaves the count of the new member as it is)
ksReplaceAtUncounted(st, s, k, pos) ==
    [keyDecRefDel(st, st.keyset[s].keys[pos]) EXCEPT !.keyset[s].keys[pos] = k]

\* key k takes the place of the key at pos, which loses the reference of the set
ksReplaceAt(st, s, k, pos) ==
    [keyDecRefDel(st, st.keyset[s].keys[pos]) EXCEPT !.keyset[s].keys[pos] = k,
                                                     !.keyRef[k] = @ + 1]

ksInsertAt(st, s, k, at) ==
    [st EXCEPT !.keyset[s].keys = SubSeq(@, 1, at - 1) \o <<k>> \o SubSeq(@, at, Len(@)),
               !.keyRef[k] = @ + 1]

\* pos: where the name of k is in the set, 0 if nowhere
ksAppendKeyAt(st, s, k, pos) ==
    IF pos = 0 THEN ksInsertAt(st, s, k, InsertPos(st.keyset[s].keys, k))
    ELSE IF st.keyset[s].keys[pos] = k THEN st
    ELSE ksReplaceAt(st, s, k, pos)

ksAppendKey(st, s, k) ==
    ksAppendKeyAt([st EXCEPT !.keyset[s].cursor = -1], s, k,
                  ksSearch(st.keyset[s].keys, UName(k)))

\* ksAppend: ksAppendKey for each key of the source
RECURSIVE ksAppend(_, _, _)
ksAppend(st, dst, keys) ==
    IF keys = <<>> THEN [st EXCEPT !.keyset[dst].cursor = -1]
    ELSE ksAppend(ksAppendKey(st, dst, Head(keys)), dst, Tail(keys))

\* (a comparison of the escaped names, byte by byte)
IsBelowOrSameByBytes(name, k) == IsPrefix(name, KeyNames[universe][k])

\* key k has the name `name` or lies below it
IsBelowOrSame(name, k) == IsPrefix(UnescapedName(name), UName(k))

\* ksCut: the keys at or below cutpoint move to the new key-set n
ksCut(st, s, cutpoint, n) ==
    LET keys == st.keyset[s].keys
        Cut(k) == IsBelowOrSame(cutpoint, k)
        Keep(k) == ~IsBelowOrSame(cutpoint, k)
    IN [st EXCEPT !.keyset[s].keys = SelectSeq(keys, Keep),
                  !.keyset[s].cursor = -1,
                  !.keyset[n] = [live |-> TRUE, keys |-> SelectSeq(keys, Cut), cursor |-> -1]]

\* (a pop that leaves the cursor where it is)
ksPopKeepingCursor(st, s) ==
    IF st.keyset[s].keys = <<>> THEN st
    ELSE [st EXCEPT !.keyset[s].keys = SubSeq(@, 1, Len(@) - 1),
                    !.keyRef[st.keyset[s].keys[Len(st.keyset[s].keys)]] = @ - 1]

\* ksPop: the last key leaves the set and belongs to the caller; the cursor
\* is before the first key afterwards
ksPop(st, s) ==
    IF st.keyset[s].keys = <<>> THEN [st EXCEPT !.keyset[s].cursor = -1]
    ELSE [st EXCEPT !.keyset[s].keys = SubSeq(@, 1, Len(@) - 1),
                    !.keyset[s].cursor = -1,
                    !.keyRef[st.keyset[s].keys[Len(st.keyset[s].keys)]] = @ - 1]

\* ksDel: every key loses the reference of the set and is deleted with it
RECURSIVE ksDelKeys(_, _)
ksDelKeys(st, keys) ==
    IF keys = <<>> THEN st
    ELSE ksDelKeys(keyDecRefDel(st, Head(keys)), Tail(keys))

ksDel(st, s) ==
    [ksDelKeys(st, st.keyset[s].keys) EXCEPT !.keyset[s] = NoKeySet]


\* ksNext: one step forward; past the last key there is no current key
ksNext(st, s) ==
    LET c == st.keyset[s].cursor
        n == Len(st.keyset[s].keys)
    IN [st EXCEPT !.keyset[s].cursor = IF c + 1 < n THEN c + 1 ELSE n]

\* the key at the cursor (counted from 0), NoKey before the first and past the last
ksCurrent(st, s) ==
    LET c == st.keyset[s].cursor
    IN IF c >= 0 /\ c < Len(st.keyset[s].keys) THEN st.keyset[s].keys[c + 1] ELSE NoKey

ksRewind(st, s) == [st EXCEPT !.keyset[s].cursor = -1]

IsCascading(name) == name # <<>> /\ Head(name) = "/"

\* the first key found under the names tried, NoKey if none is there
RECURSIVE ksLookupFirst(_, _)
ksLookupAt(keys, names, pos) ==
    IF pos # 0 THEN keys[pos] ELSE ksLookupFirst(keys, Tail(names))

ksLookupFirst(keys, names) ==
    IF names = <<>> THEN NoKey
    ELSE ksLookupAt(keys, names, ksSearch(keys, UnescapedName(Head(names))))

ksLookupNames(name) ==
    IF IsCascading(name)
    THEN [i \in 1..Len(CascadingOrder) |-> CascadingOrder[i] \o name]
    ELSE <<name>>

KDB_O_NONE == "KDB_O_NONE"
KDB_O_DEL == "KDB_O_DEL"
KDB_O_POP == "KDB_O_POP"

\* the found key leaves the set, which gives up its reference
ksLookupPop(st, s, found) ==
    [st EXCEPT !.keyset[s].keys = SelectSeq(@, LAMBDA k : k # found),
               !.keyset[s].cursor = -1,
               !.keyRef[found] = @ - 1]

\* keyDel of a key that has left its set
ksLookupDel(st, found) ==
    [st EXCEPT !.keyFreed = IF st.keyRef[found] = 0 THEN @ \cup {found} ELSE @]

ksLookupFound(st, s, query, options, found) ==
    [ret |-> found, query |-> query,
     st |-> IF found = NoKey \/ options = KDB_O_NONE THEN st
            ELSE IF options = KDB_O_POP THEN ksLookupPop(st, s, found)
            ELSE ksLookupDel(ksLookupPop(st, s, found), found)]

\* ksLookup by the name of the query key: [st, ret, query], query being the
\* query key as the call leaves it
ksLookup(st, s, query, options) ==
    ksLookupFound(st, s, query, options,
                  ksLookupFirst(st.keyset[s].keys, ksLookupNames(keyName(query))))

\* the caller takes and drops references of its own
keyIncRef(st, k) == [st EXCEPT !.keyRef[k] = @ + 1, !.keyHeld[k] = @ + 1]

keyDecRef(st, k) == [st EXCEPT !.keyRef[k] = @ - 1, !.keyHeld[k] = @ - 1]

MaxHeld == 1

\* ---------------------------------------------------- specification

NoCall == [op |-> "none", arg |-> <<>>, ret |-> 0, pre |-> NewKey]

\* The parts of the program a specification does not run stay unused.
Unused == "unused"

AppInit ==
    /\ kdb = Unused
    /\ plugin = Unused
    /\ files = Unused
    /\ lexer = Unused
    /\ buffer = Unused

\* no key-set and no key of a key-set exists
KsInit ==
    /\ keyset = [s \in KsIds |-> NoKeySet]
    /\ keyRef = [k \in KeyIds |-> 0]
    /\ keyHeld = [k \in KeyIds |-> 0]
    /\ keyFreed = {}

Init ==
    /\ key = NewKey
    /\ heapFill \in {NUL, "x"}
    /\ pc = "ready"
    /\ last = NoCall
    /\ universe = "order"
    /\ KsInit
    /\ AppInit

\* The result r of calling op with arg becomes visible to the caller.  A
\* call that accesses memory outside the name buffer (undefined behaviour)
\* ends the run.
Returns(op, arg, r) ==
    /\ key' = IF r.ub THEN key ELSE r.k
    /\ last' = [op |-> op, arg |-> arg, ret |-> r.ret, pre |-> key]
    /\ pc' = IF r.ub THEN "crashed" ELSE "returned"
    /\ UNCHANGED heapFill
    /\ UNCHANGED ksVars
    /\ UNCHANGED appVars

KeySetName ==
    /\ pc = "ready"
    /\ Small(key)
    /\ \E n \in SetNameArgs : Returns("keySetName", n, keySetName(key, n))

KeyAddName ==
    /\ pc = "ready"
    /\ Small(key)
    /\ \E n \in AddNameArgs : Returns("keyAddName", n, keyAddName(key, n))

KeySetBaseName ==
    /\ pc = "ready"
    /\ Small(key)
    /\ \E n \in BaseNameArgs : Returns("keySetBaseName", n, keySetBaseName(key, n))

KeyAddBaseName ==
    /\ pc = "ready"
    /\ Small(key)
    /\ \E n \in BaseNameArgs : Returns("keyAddBaseName", n, keyAddBaseName(key, n))

\* the key is inserted into a key-set: its name is locked from then on
KeyLockName ==
    /\ pc = "ready"
    /\ KEY_FLAG_RO_NAME \notin key.flags
    /\ key' = [key EXCEPT !.flags = @ \cup {KEY_FLAG_RO_NAME}]
    /\ UNCHANGED <<heapFill, pc, last>>
    /\ UNCHANGED ksVars
    /\ UNCHANGED appVars

\* the caller has looked at the result and goes on
Resume ==
    /\ pc = "returned"
    /\ pc' = "ready"
    /\ last' = NoCall
    /\ UNCHANGED <<key, heapFill>>
    /\ UNCHANGED ksVars
    /\ UNCHANGED appVars

Next ==
    \/ KeySetName
    \/ KeyAddName
    \/ KeySetBaseName
    \/ KeyAddBaseName
    \/ KeyLockName
    \/ Resume

Spec == Init /\ [][Next]_vars

\* ------------------------------------- specification of the key-sets

\* the variable key is the query key of the lookups, a new key of some name
InitKs ==
    /\ heapFill = NUL
    /\ universe \in Universes
    /\ key \in {keySetName(NewKey, n).k : n \in LookupNames[universe]}
    /\ pc = "ready"
    /\ last = NoCall
    /\ KsInit
    /\ AppInit

\* The call op(arg) returns ret and leaves the key-sets and keys as in st
\* and the query key as it is.
KsReturns(op, arg, ret, st) ==
    /\ keyset' = st.keyset
    /\ keyRef' = st.keyRef
    /\ keyHeld' = st.keyHeld
    /\ keyFreed' = st.keyFreed
    /\ last' = [op |-> op, arg |-> arg, ret |-> ret, pre |-> KsState]
    /\ pc' = "returned"
    /\ UNCHANGED <<key, heapFill, universe>>
    /\ UNCHANGED appVars

Live(s) == keyset[s].live

KsNew ==
    /\ pc = "ready"
    /\ \E s \in KsIds :
          /\ ~Live(s)
          /\ KsReturns("ksNew", [ks |-> s], s,
                       [KsState EXCEPT !.keyset[s] = [NoKeySet EXCEPT !.live = TRUE]])

KsAppendKey ==
    /\ pc = "ready"
    /\ \E s \in KsIds, k \in KeyIds \ keyFreed :
          /\ Live(s)
          /\ LET st == ksAppendKey(KsState, s, k)
             IN KsReturns("ksAppendKey", [ks |-> s, key |-> k],
                          Len(st.keyset[s].keys), st)

KsAppend ==
    /\ pc = "ready"
    /\ \E dst \in KsIds, src \in KsIds :
          /\ dst # src
          /\ Live(dst)
          /\ Live(src)
          /\ LET st == ksAppend(KsState, dst, keyset[src].keys)
             IN KsReturns("ksAppend", [ks |-> dst, src |-> src],
                          Len(st.keyset[dst].keys), st)

KsCut ==
    /\ pc = "ready"
    /\ \E s \in KsIds, n \in KsIds, cutpoint \in CutPoints[universe] :
          /\ Live(s)
          /\ ~Live(n)
          /\ KsReturns("ksCut", [ks |-> s, cutpoint |-> cutpoint], n,
                       ksCut(KsState, s, cutpoint, n))

KsPop ==
    /\ pc = "ready"
    /\ \E s \in WalkedIds :
          /\ Live(s)
          /\ KsReturns("ksPop", [ks |-> s],
                       IF keyset[s].keys = <<>> THEN NoKey
                       ELSE keyset[s].keys[Len(keyset[s].keys)],
                       ksPop(KsState, s))

KsDel ==
    /\ pc = "ready"
    /\ \E s \in KsIds :
          /\ Live(s)
          /\ KsReturns("ksDel", [ks |-> s], 0, ksDel(KsState, s))

KsRewind ==
    /\ pc = "ready"
    /\ \E s \in WalkedIds :
          /\ Live(s)
          /\ KsReturns("ksRewind", [ks |-> s], 0, ksRewind(KsState, s))

KsNext ==
    /\ pc = "ready"
    /\ \E s \in WalkedIds :
          /\ Live(s)
          /\ LET st == ksNext(KsState, s)
             IN KsReturns("ksNext", [ks |-> s], ksCurrent(st, s), st)

\* ksLookup(s, key, options) returns as r tells
KsLookupReturns(s, options, r) ==
    /\ keyset' = r.st.keyset
    /\ keyRef' = r.st.keyRef
    /\ keyHeld' = r.st.keyHeld
    /\ keyFreed' = r.st.keyFreed
    /\ key' = r.query
    /\ last' = [op |-> "ksLookup", arg |-> [ks |-> s, query |-> key, options |-> options],
                ret |-> r.ret, pre |-> KsState]
    /\ pc' = "returned"
    /\ UNCHANGED <<heapFill, universe>>
    /\ UNCHANGED appVars

KsLookup ==
    /\ pc = "ready"
    /\ \E s \in WalkedIds, options \in {KDB_O_NONE, KDB_O_POP, KDB_O_DEL} :
          /\ Live(s)
          /\ KsLookupReturns(s, options, ksLookup(KsState, s, key, options))

\* the keys the caller takes references of its own to
HeldIds == {1}

KeyIncRef ==
    /\ pc = "ready"
    /\ \E k \in HeldIds \ keyFreed :
          /\ keyHeld[k] < MaxHeld
          /\ KsReturns("keyIncRef", [key |-> k], keyRef[k] + 1, keyIncRef(KsState, k))

KeyDecRef ==
    /\ pc = "ready"
    /\ \E k \in HeldIds \ keyFreed :
          /\ keyHeld[k] > 0
          /\ KsReturns("keyDecRef", [key |-> k], keyRef[k] - 1, keyDecRef(KsState, k))

NextKs ==
    \/ KsNew
    \/ KsAppendKey
    \/ KsAppend
    \/ KsCut
    \/ KsPop
    \/ KsDel
    \/ KsRewind
    \/ KsNext
    \/ KsLookup
    \/ KeyIncRef
    \/ KeyDecRef
    \/ Resume

SpecKs == InitKs /\ [][NextKs]_vars

\* ------------------------------------------------ properties of names

Ops == {"keySetName", "keyAddName", "keySetBaseName", "keyAddBaseName"}

Returned(op) == pc = "returned" /\ last.op = op

Locked(k) == KEY_FLAG_RO_NAME \in k.flags

\* the byte at i is a slash that separates two parts
IsSep(s, i) == s[i] = KDB_PATH_SEPARATOR /\ TrailingEscapes(s, i - 1) % 2 = 0

StartsPart(s, i) == i = 1 \/ IsSep(s, i - 1)

EndsPart(s, i) == i = Len(s) \/ IsSep(s, i + 1)

\* no doubled separator, no separator at the end (the cascading root "/"
\* apart), no part that is a bare "." or ".."
CanonicalName(s) ==
    /\ \A i \in 1..(Len(s) - 1) : ~(IsSep(s, i) /\ s[i + 1] = KDB_PATH_SEPARATOR)
    /\ Len(s) > 1 => ~IsSep(s, Len(s))
    /\ \A i \in 1..Len(s) : ~(StartsPart(s, i) /\ s[i] = "." /\ EndsPart(s, i))
    /\ \A i \in 1..(Len(s) - 1) :
          ~(StartsPart(s, i) /\ s[i] = "." /\ s[i + 1] = "." /\ EndsPart(s, i + 1))

\* C1: after any sequence of keySetName, keyAddName, keySetBaseName and
\* keyAddBaseName the escaped name of the key is canonical.
NameStaysCanonical == pc # "crashed" => CanonicalName(keyName(key))

\* what a caller can read of the name of k
NameFields(k) ==
    [name |-> keyName(k), size |-> keyGetNameSize(k),
     uname |-> keyUnescapedName(k), usize |-> keyGetUnescapedNameSize(k),
     sync |-> KEY_FLAG_SYNC \in k.flags]

\* escaped name, unescaped name, both sizes and the sync flag agree
NameFieldsAgree(k) ==
    LET f == NameFields(k)
    IN /\ f.sync
       /\ f.size = Len(f.name) + 1
       /\ f.name # <<>> => /\ f.uname = elektraUnescapeKeyName(f.name)
                           /\ f.usize = Len(f.uname)

\* C2: a name operation either leaves escaped name, unescaped name, both
\* sizes and the sync flag untouched, or advances all of them together:
\* the unescaped name is the unescaping of the escaped name, the sizes fit
\* and the sync flag is set.
NameOpsTransactional ==
    (pc = "returned" /\ last.op \in Ops)
        => (NameFields(key) = NameFields(last.pre) \/ NameFieldsAgree(key))

\* The canonical form of an input name, part by part: the root, then every
\* part that is neither "." nor removed by a later "..".
RECURSIVE CanonParts(_, _)
CanonParts(parts, stack) ==
    IF parts = <<>> THEN stack
    ELSE IF Head(parts) = <<".">> THEN CanonParts(Tail(parts), stack)
    ELSE IF Head(parts) = <<".", ".">>
    THEN CanonParts(Tail(parts),
                    IF stack = <<>> THEN stack ELSE SubSeq(stack, 1, Len(stack) - 1))
    ELSE CanonParts(Tail(parts), Append(stack, Head(parts)))

RECURSIVE JoinParts(_)
JoinParts(parts) ==
    IF parts = <<>> THEN <<>>
    ELSE <<KDB_PATH_SEPARATOR>> \o Head(parts) \o JoinParts(Tail(parts))

PartsOf(s) == [i \in 1..Len(LevelsFrom(s, 0)) |-> Part(s, LevelsFrom(s, 0)[i])]

\* the first part without an owner ("user:max" is the root "user")
RootOf(part) ==
    IF IsPrefix(NsUser \o <<":">>, part) THEN NsUser ELSE part

CanonOf(n) ==
    IF n[1] = KDB_PATH_SEPARATOR
    THEN LET ps == CanonParts(PartsOf(n), <<>>)
         IN IF ps = <<>> THEN <<KDB_PATH_SEPARATOR>> ELSE JoinParts(ps)
    ELSE RootOf(Head(PartsOf(n))) \o JoinParts(CanonParts(Tail(PartsOf(n)), <<>>))

\* a name keySetName has to accept: it starts with a namespace and does
\* not end with an odd number of backslashes
ValidName(n) ==
    /\ ~IsNull(n)
    /\ n # <<>>
    /\ keyGetNameNamespace(n) # "KEY_NS_META"
    /\ TrailingEscapes(n, Len(n)) % 2 = 0

\* C3: for every valid input name keySetName stores the canonical form:
\* runs of slashes collapsed, "." parts dropped, each ".." removing the
\* part before it.
SetNameStoresCanonicalForm ==
    (Returned("keySetName") /\ ~Locked(last.pre) /\ ValidName(last.arg))
        => keyName(key) = CanonOf(last.arg)

\* C4: a name the key holds after a successful name operation is accepted
\* by keySetName on a fresh key, which then stores exactly that name.
HeldNameSetsItself ==
    (pc = "returned" /\ last.op \in Ops /\ last.ret > 0)
        => LET r == keySetName(NewKey, keyName(key))
           IN ~r.ub /\ r.ret # -1 /\ keyName(r.k) = keyName(key)

SystemUp == Str("system/..")

SystemUpUp == Str("system/../..")

\* C5 as stated: "system/.." is stored as "system", "system/../.." is
\* rejected with -1 and leaves the name empty.
SetNameRejectsAboveSystem ==
    (Returned("keySetName") /\ ~Locked(last.pre))
        => /\ last.arg = SystemUp => keyName(key) = NsSystem
           /\ last.arg = SystemUpUp => (last.ret = -1 /\ keyName(key) = <<>>)

\* C5: keySetName stores "system/.." as "system"; "system/../.." is not
\* rejected: the ".." parts at the root are dropped and the name is
\* "system" as well.
SetNameClampsAtSystem ==
    (Returned("keySetName") /\ ~Locked(last.pre) /\ last.arg \in {SystemUp, SystemUpUp})
        => (last.ret # -1 /\ keyName(key) = NsSystem /\ keyGetNameSize(key) = 7)

SetNameClampsAtSystemWitness ==
    /\ Returned("keySetName")
    /\ ~Locked(last.pre)
    /\ last.arg = SystemUpUp
    /\ keyName(key) = NsSystem

\* C6: on a key whose name is locked each name operation with a non-NULL
\* argument returns -1 and changes nothing of the key: name, unescaped
\* name, sizes, owner and flags stay as they were.
LockedNameIsReadOnly ==
    (pc = "returned" /\ last.op \in Ops /\ Locked(last.pre) /\ ~IsNull(last.arg))
        => (last.ret = -1 /\ key = last.pre)

LockedNameIsReadOnlyWitness ==
    /\ Returned("keySetName")
    /\ Locked(last.pre)
    /\ keyName(last.pre) = Str("user/a")
    /\ last.arg = Str("/a//b")
    /\ last.ret = -1

\* a name keySetName has to reject
InvalidName(n) == ~IsNull(n) /\ n # <<>> /\ ~ValidName(n)

NameIsEmpty(k) == keyName(k) = <<>> /\ keyGetNameSize(k) = 1

\* C7: on a key that is not locked keySetName returns -1 for an invalid
\* name and 0 for NULL or "", and in both cases leaves the name empty:
\* keyName is "" and keyGetNameSize is 1.
SetNameInvalidOrEmpty ==
    (Returned("keySetName") /\ ~Locked(last.pre))
        => /\ InvalidName(last.arg) => (last.ret = -1 /\ NameIsEmpty(key))
           /\ (IsNull(last.arg) \/ last.arg = <<>>) => (last.ret = 0 /\ NameIsEmpty(key))

SetNameInvalidOrEmptyWitness ==
    /\ Returned("keySetName")
    /\ ~Locked(last.pre)
    /\ keyName(last.pre) = Str("/a")
    /\ last.arg = Str("user/a\\")
    /\ last.ret = -1
    /\ NameIsEmpty(key)

\* C8 as stated: after keySetName with "" the namespace is empty,
\* keyGetUnescapedNameSize is 0 and keyGetNameSize is 1.
EmptyNameHasNoUnescapedSize ==
    (Returned("keySetName") /\ ~Locked(last.pre) /\ last.arg = <<>>)
        => /\ keyGetNamespace(key) = "KEY_NS_EMPTY"
           /\ keyGetUnescapedNameSize(key) = 0
           /\ keyGetNameSize(key) = 1

\* C8: after keySetName with "" the namespace is empty, keyGetNameSize is
\* 1 and keyGetUnescapedNameSize is 1 as well: the unescaped name is a
\* lone NUL byte.
EmptyNameHasSizeOne ==
    (Returned("keySetName") /\ ~Locked(last.pre) /\ last.arg = <<>>)
        => /\ keyGetNamespace(key) = "KEY_NS_EMPTY"
           /\ keyGetUnescapedNameSize(key) = 1
           /\ keyUnescapedName(key) = <<NUL>>
           /\ keyGetNameSize(key) = 1

EmptyNameHasSizeOneWitness ==
    /\ Returned("keySetName")
    /\ ~Locked(last.pre)
    /\ keyName(last.pre) = Str("user/a")
    /\ last.arg = <<>>
    /\ keyGetUnescapedNameSize(key) = 1

\* C9: keySetName returns the size of the escaped name with its NUL, the
\* value keyGetNameSize gives afterwards, whenever it leaves a name that is
\* not empty; it returns 0 only for NULL or "", and the name is empty then.
SetNameReturnsNameSize ==
    (Returned("keySetName") /\ ~Locked(last.pre))
        => /\ keyName(key) # <<>> => /\ last.ret = keyGetNameSize(key)
                                     /\ last.ret = Len(keyName(key)) + 1
           /\ last.ret = 0 => /\ IsNull(last.arg) \/ last.arg = <<>>
                              /\ keyName(key) = <<>>

\* C10: keyAddName returns 0 only if it did nothing: the escaped name is
\* byte for byte what it was before the call.
AddNameZeroMeansUntouched ==
    (Returned("keyAddName") /\ last.ret = 0) => keyName(key) = keyName(last.pre)

\* the first part of a name: "/" for a cascading name, else the bytes up to
\* the first separator
FirstSegment(s) ==
    IF s = <<>> THEN <<>>
    ELSE IF s[1] = KDB_PATH_SEPARATOR THEN <<KDB_PATH_SEPARATOR>>
    ELSE Part(s, keyNameGetOneLevel(s, 0))

\* C11: keyAddName never changes the namespace of a key with a name: the
\* namespace and the first segment of the name are after the call what
\* they were before, whatever ".." parts the argument has.
AddNameKeepsNamespace ==
    (Returned("keyAddName") /\ keyName(last.pre) # <<>>)
        => /\ keyGetNamespace(key) = keyGetNamespace(last.pre)
           /\ FirstSegment(keyName(key)) = FirstSegment(keyName(last.pre))

AddNameKeepsNamespaceWitness ==
    /\ Returned("keyAddName")
    /\ keyName(last.pre) = Str("user/a")
    /\ last.arg = Str("../..")
    /\ keyName(key) = NsUser

\* the name has no part below its root (or there is no name)
RootOnly(s) ==
    \/ LevelsFrom(s, 0) = <<>>
    \/ Len(LevelsFrom(s, 0)) = 1 /\ s[1] # KDB_PATH_SEPARATOR

\* a name without its last part and the separator in front of it
WithoutLastPart(s) ==
    LET ls == LevelsFrom(s, 0)
    IN SubSeq(s, 1, ls[Len(ls)].p - 1)

\* C12: keySetBaseName on a key whose name is a root only ("user",
\* "system", "/", no name) returns -1 and leaves the key unchanged; on any
\* other key it replaces the last part only: everything in front of it,
\* the namespace included, is kept.
SetBaseNameReplacesLastPart ==
    (pc \in {"returned", "crashed"} /\ last.op = "keySetBaseName"
     /\ ~Locked(last.pre) /\ ~IsNull(last.arg))
        => /\ pc = "returned"
           /\ IF RootOnly(keyName(last.pre))
              THEN last.ret = -1 /\ key = last.pre
              ELSE /\ keyName(key) = WithoutLastPart(keyName(last.pre))
                                     \o <<KDB_PATH_SEPARATOR>>
                                     \o elektraEscapeKeyNamePart(last.arg)
                   /\ last.ret = keyGetNameSize(key)

\* the name one level up: a cascading name keeps its root "/"
ParentName(s) ==
    IF WithoutLastPart(s) = <<>> THEN <<KDB_PATH_SEPARATOR>> ELSE WithoutLastPart(s)

\* C13: keySetBaseName with NULL or "" removes the base name: on a key with
\* a part below its root, cascading or not, the name afterwards is the
\* name before without its last part.
SetBaseNameNullRemovesLastPart ==
    (Returned("keySetBaseName") /\ ~Locked(last.pre)
     /\ (IsNull(last.arg) \/ last.arg = <<>>) /\ ~RootOnly(keyName(last.pre)))
        => keyName(key) = ParentName(keyName(last.pre))

\* C14: keyAddBaseName with any string s on a key with a name appends
\* exactly one part: the unescaped name afterwards is the one before
\* followed by s, keyBaseName is s, and the escaped name before is kept
\* in front of the one new part.
AddBaseNameAppendsOnePart ==
    (Returned("keyAddBaseName") /\ ~Locked(last.pre) /\ ~IsNull(last.arg)
     /\ keyName(last.pre) # <<>>)
        => /\ keyUnescapedName(key) = keyUnescapedName(last.pre) \o last.arg \o <<NUL>>
           /\ keyBaseName(key) = last.arg
           /\ IsPrefix(keyName(last.pre) \o <<KDB_PATH_SEPARATOR>>, keyName(key))
           /\ Len(LevelsFrom(keyName(key), 0)) = Len(LevelsFrom(keyName(last.pre), 0)) + 1

\* C15: keyAddName and keyAddBaseName return -1 and change nothing on a key
\* without a name, be it a key whose name keySetName set to "" or a key
\* whose name a failed keySetName removed.
AddToNamelessKeyFails ==
    (pc = "returned" /\ last.op \in {"keyAddName", "keyAddBaseName"}
     /\ ~IsNull(last.arg) /\ keyName(last.pre) = <<>>)
        => (last.ret = -1 /\ key = last.pre)

\* ------------------------------------------- properties of key-sets

KsReturned(op) == pc = "returned" /\ last.op = op

\* the keys of a sequence of keys
Members(keys) == {keys[i] : i \in 1..Len(keys)}

\* the live key-sets of state st that contain key k
SetsHolding(st, k) == {s \in KsIds : st.keyset[s].live /\ k \in Members(st.keyset[s].keys)}

\* C16: every key's reference count is the number of live key-sets that
\* contain it plus the references the caller holds, and no freed key is
\* in a key-set or held; when ksAppendKey replaces a member of the same
\* name, the replaced key's count drops by one and the appended key is
\* counted as a member; ksDel leaves the other key-sets as they are, so
\* the keys ksAppend copied from the deleted set stay in the destination
\* with a count of at least one.
RefcountBalance ==
    /\ \A k \in KeyIds :
          /\ keyRef[k] = Cardinality(SetsHolding(KsState, k)) + keyHeld[k]
          /\ k \in keyFreed => keyRef[k] = 0
    /\ \A s \in KsIds : Live(s) =>
          \A k \in Members(keyset[s].keys) : k \notin keyFreed /\ keyRef[k] >= 1
    /\ KsReturned("ksAppendKey") =>
          \A old \in Members(last.pre.keyset[last.arg.ks].keys) :
              (old # last.arg.key /\ UName(old) = UName(last.arg.key))
                  => /\ keyRef[old] = last.pre.keyRef[old] - 1
                     /\ old \notin Members(keyset[last.arg.ks].keys)
                     /\ last.arg.key \in Members(keyset[last.arg.ks].keys)
                     /\ keyRef[last.arg.key] = last.pre.keyRef[last.arg.key] + 1
    /\ KsReturned("ksDel") =>
          \A s \in KsIds \ {last.arg.ks} : keyset[s] = last.pre.keyset[s]

\* ksDel of a key-set whose keys are in the other one as well: they are
\* still there with one reference each, while the caller holds a key that
\* is in no key-set
RefcountBalanceWitness ==
    /\ KsReturned("ksDel")
    /\ \E s \in KsIds \ {last.arg.ks} :
          /\ Live(s)
          /\ last.pre.keyset[last.arg.ks].keys # <<>>
          /\ Members(last.pre.keyset[last.arg.ks].keys) \subseteq Members(keyset[s].keys)
          /\ \A k \in Members(keyset[s].keys) : keyRef[k] = 1
    /\ \E k \in KeyIds : keyHeld[k] = 1 /\ keyRef[k] = 1 /\ k \notin keyFreed

\* the unescaped names of a sequence of keys
UNamesOf(keys) == [i \in 1..Len(keys) |-> UName(keys[i])]

\* C17: a key-set holds its keys in strictly ascending byte order of their
\* unescaped names, so no two of them have the same name; ksAppendKey of a
\* key whose name is present puts it in the place of the old member and
\* leaves the size as it is, and of a new name makes the set one larger.
KeySetIsSorted ==
    /\ \A s \in KsIds : Live(s) =>
          \A i \in 1..Len(keyset[s].keys), j \in 1..Len(keyset[s].keys) :
              i < j => BytesLess(UName(keyset[s].keys[i]), UName(keyset[s].keys[j]))
    /\ KsReturned("ksAppendKey") =>
          LET before == last.pre.keyset[last.arg.ks].keys
              after == keyset[last.arg.ks].keys
              new == last.arg.key
          IN /\ last.ret = Len(after)
             /\ UName(new) \in Members(UNamesOf(before))
                   => /\ Len(after) = Len(before)
                      /\ UNamesOf(after) = UNamesOf(before)
                      /\ new \in Members(after)
             /\ UName(new) \notin Members(UNamesOf(before))
                   => /\ Len(after) = Len(before) + 1
                      /\ Members(after) = Members(before) \cup {new}

\* {system/a, system/b, user/a} with another key named system/a appended:
\* still those three names in that order, the new key first
KeySetIsSortedWitness ==
    /\ KsReturned("ksAppendKey")
    /\ universe = "order"
    /\ last.pre.keyset[last.arg.ks].keys = <<1, 2, 3>>
    /\ last.arg.key = 4
    /\ keyset[last.arg.ks].keys = <<4, 2, 3>>
    /\ UNamesOf(keyset[last.arg.ks].keys)
           = <<elektraUnescapeKeyName(Str("system/a")), elektraUnescapeKeyName(Str("system/b")),
               elektraUnescapeKeyName(Str("user/a"))>>
    /\ last.ret = 3

\* key k is named c or its name goes on below c
SameOrBelow(c, k) ==
    \/ KeyNames[universe][k] = c
    \/ IsPrefix(c \o <<KDB_PATH_SEPARATOR>>, KeyNames[universe][k])

\* C18: ksCut(S, c) returns the keys of S that are named c or lie below c,
\* in the order they had in S, and leaves in S the other keys in their
\* order: every key of S is in exactly one of the two afterwards.
CutSplitsAtCutpoint ==
    KsReturned("ksCut") =>
        LET before == last.pre.keyset[last.arg.ks].keys
            Below(k) == SameOrBelow(last.arg.cutpoint, k)
            NotBelow(k) == ~SameOrBelow(last.arg.cutpoint, k)
        IN /\ last.ret \in KsIds \ {last.arg.ks}
           /\ Live(last.ret)
           /\ keyset[last.ret].keys = SelectSeq(before, Below)
           /\ keyset[last.arg.ks].keys = SelectSeq(before, NotBelow)
           /\ Len(keyset[last.ret].keys) + Len(keyset[last.arg.ks].keys) = Len(before)

\* {user, user/other, user/tests, user/tests/a} cut at user/tests
CutSplitsAtCutpointWitness ==
    /\ KsReturned("ksCut")
    /\ universe = "cut"
    /\ last.arg.cutpoint = Str("user/tests")
    /\ last.pre.keyset[last.arg.ks].keys = <<1, 4, 2, 3>>
    /\ keyset[last.ret].keys = <<2, 3>>
    /\ keyset[last.arg.ks].keys = <<1, 4>>

KeyNamed(keys, name) ==
    IF \E k \in Members(keys) : KeyNames[universe][k] = name
    THEN CHOOSE k \in Members(keys) : KeyNames[universe][k] = name
    ELSE NoKey

\* what a lookup of the cascading name `name` in keys has to return
RECURSIVE FirstInNamespaces(_, _, _)
FirstInNamespaces(keys, name, namespaces) ==
    IF namespaces = <<>> THEN NoKey
    ELSE IF KeyNamed(keys, Head(namespaces) \o name) # NoKey
    THEN KeyNamed(keys, Head(namespaces) \o name)
    ELSE FirstInNamespaces(keys, name, Tail(namespaces))

NameLess(a, b) == BytesLess(elektraUnescapeKeyName(a), elektraUnescapeKeyName(b))

\* the key named n has the name `name` or lies below it
NameBelowOrSame(name, n) ==
    IsPrefix(elektraUnescapeKeyName(name), elektraUnescapeKeyName(n))

NamesOf(ks) == {ks[i].name : i \in 1..Len(ks)}

\* ks.AppendKey(k): k replaces the key of the same name, or goes to its place
KeySetAppendKey(ks, k) ==
    IF k.name \in NamesOf(ks)
    THEN [i \in 1..Len(ks) |-> IF ks[i].name = k.name THEN k ELSE ks[i]]
    ELSE LET pos == Cardinality({i \in 1..Len(ks) : NameLess(ks[i].name, k.name)})
         IN SubSeq(ks, 1, pos) \o <<k>> \o SubSeq(ks, pos + 1, Len(ks))

\* ks.Append(other): every key of other is appended to ks
RECURSIVE KeySetAppend(_, _)
KeySetAppend(ks, other) ==
    IF other = <<>> THEN ks
    ELSE KeySetAppend(KeySetAppendKey(ks, Head(other)), Tail(other))

\* ks.Cut(cutpoint): the keys at or below name leave ks and are returned
KeySetCut(ks, name) ==
    LET Below(k) == NameBelowOrSame(name, k.name)
        Other(k) == ~NameBelowOrSame(name, k.name)
    IN [cut |-> SelectSeq(ks, Below), rest |-> SelectSeq(ks, Other)]

\* elektra.CreateKey(name): a key with the canonical form of name
CreateKey(name) == keyName(keySetName(NewKey, name).k)

\* the names of name and of the levels above it
NameAndAbove(name) ==
    {SubSeq(name, 1, i) : i \in {j \in 1..Len(name) :
                                    j = Len(name) \/ name[j + 1] = KDB_PATH_SEPARATOR}}

\* elektra.CommonKeyName(a, b): the longest name both a and b lie at or below
CommonKeyName(a, b) ==
    LET common == {n \in NameAndAbove(a) : NameBelowOrSame(n, b)}
    IN IF common = {} THEN <<KDB_PATH_SEPARATOR>>
       ELSE CHOOSE n \in common : \A m \in common : Len(m) <= Len(n)

NEEDS_GET == "needs-get"

\* kdb.Get(ks, parent): the stored keys at or below parent are merged into
\* ks; the handle remembers the parent
kdbGet(db, ks, parent) ==
    [kdb |-> [db EXCEPT !.got = @ \cup {parent}],
     ks |-> KeySetAppend(ks, KeySetCut(db.stored, parent).cut),
     ret |-> "updated"]

\* (a set that commits whether or not the parent was got before)
kdbSetUnchecked(db, ks, parent) ==
    [kdb |-> [db EXCEPT !.stored = KeySetAppend(KeySetCut(db.stored, parent).rest,
                                                KeySetCut(ks, parent).cut)],
     ret |-> "committed"]

\* kdb.Set(ks, parent): the keys of ks at or below parent become the stored
\* subtree below parent, if parent was got on this handle before
kdbSet(db, ks, parent) ==
    IF parent \notin db.got THEN [kdb |-> db, ret |-> NEEDS_GET]
    ELSE [kdb |-> [db EXCEPT !.stored = KeySetAppend(KeySetCut(db.stored, parent).rest,
                                                     KeySetCut(ks, parent).cut)],
          ret |-> "committed"]

\* the one element of a set of one element
The(S) == CHOOSE x \in S : TRUE

\* renameKey(k, from, to): a duplicate of k named to + k.Name()[len(from):]
renameKey(k, from, to) ==
    The({[k EXCEPT !.name = newName] :
           newName \in {CreateKey(name) :
                          name \in {to \o SubSeq(k.name, Len(from) + 1, Len(k.name))}}})

\* the loop over oldConf: every key is appended to newConf under its new name
RECURSIVE RenameAll(_, _, _, _)
RenameAll(newConf, oldConf, from, to) ==
    IF oldConf = <<>> THEN newConf
    ELSE The({RenameAll(KeySetAppendKey(newConf, newKey), Tail(oldConf), from, to) :
                newKey \in {renameKey(k, from, to) : k \in {Head(oldConf)}}})

\* newConf as the handler builds it: the renamed keys, then newConf.Append(conf)
MoveNewConf(oldConf, conf, from, to) ==
    KeySetAppend(RenameAll(<<>>, oldConf, from, to), conf)

\* the handler from kdb.Set on
MoveSet(got, newConf, rootKey) ==
    The({[kdb |-> set.kdb, status |-> "noContent", newConf |-> newConf,
          calls |-> <<[op |-> "Get", parent |-> rootKey, ret |-> got.ret],
                      [op |-> "Set", parent |-> rootKey, ret |-> set.ret]>>] :
           set \in {kdbSet(got.kdb, newConf, rootKey)}})

\* the handler after conf.Cut: oldConf is what the cut has returned, conf
\* what it has left
MoveAfterCut(got, oldConf, conf, from, to, rootKey) ==
    IF Len(oldConf) < 1
    THEN [kdb |-> got.kdb, status |-> "noContent", newConf |-> <<>>,
          calls |-> <<[op |-> "Get", parent |-> rootKey, ret |-> got.ret]>>]
    ELSE The({MoveSet(got, newConf, rootKey) :
                newConf \in {MoveNewConf(oldConf, conf, from, to)}})

\* the handler from conf.Cut(fromKey) on
MoveAfterGet(got, fromKey, from, to, rootKey) ==
    The({MoveAfterCut(got, parts.cut, parts.rest, from, to, rootKey) :
           parts \in {KeySetCut(got.ks, fromKey)}})

\* the handler from kdb.Get on
MoveWithRoot(db, fromKey, from, to, rootKey) ==
    The({MoveAfterGet(got, fromKey, from, to, rootKey) :
           got \in {kdbGet(db, <<>>, rootKey)}})

MoveWithKeys(db, fromKey, toKey, from, to) ==
    The({MoveWithRoot(db, fromKey, from, to, rootKey) :
           rootKey \in {CreateKey(root) : root \in {CommonKeyName(fromKey, toKey)}}})

\* PostMoveHandler for the request to move from to to
PostMoveHandler(db, from, to) ==
    IF from = <<>> \/ to = <<>>
    THEN [kdb |-> db, status |-> "badRequest", newConf |-> <<>>, calls |-> <<>>]
    ELSE The({MoveWithKeys(db, fromKey, toKey, from, to) :
                fromKey \in {CreateKey(from)}, toKey \in {CreateKey(to)}})

\* ---- the move handler and other clients of the database, as a system

\* the keys the database starts with are among these, each with its value
MoveKeys ==
    <<[name |-> Str("user/a"), value |-> "va"], [name |-> Str("user/a/x"), value |-> "vax"],
      [name |-> Str("user/b"), value |-> "vb"], [name |-> Str("user/c"), value |-> "vc"]>>

StoredInits ==
    {LET In(k) == k.name \in names IN SelectSeq(MoveKeys, In) :
        names \in SUBSET NamesOf(MoveKeys)}

\* the from and to of a request
MoveArgs == {<<>>, Str("user/a"), Str("user/a/x"), Str("user/b"), Str("user/c")}

\* what another client of the handle gets and sets
ClientParents == {Str("user"), Str("user/c")}
ClientSets == {<<>>, <<[name |-> Str("user/c"), value |-> "new"]>>}

\* the number of move requests and of sets by other clients in a run
MaxMoves == 1
MaxSets == 1

InitMove ==
    /\ key = NewKey
    /\ heapFill = NUL
    /\ pc = "ready"
    /\ last = NoCall
    /\ universe = "order"
    /\ KsInit
    /\ kdb \in {[stored |-> st, got |-> {}, moves |-> 0, sets |-> 0] : st \in StoredInits}
    /\ plugin = Unused
    /\ files = Unused
    /\ lexer = Unused
    /\ buffer = Unused

\* a call on the database returns
KdbReturns(op, arg, ret, db) ==
    /\ kdb' = db
    /\ pc' = "returned"
    /\ last' = [op |-> op, arg |-> arg, ret |-> ret, pre |-> kdb]
    /\ UNCHANGED <<key, heapFill>>
    /\ UNCHANGED ksVars
    /\ UNCHANGED <<plugin, files, lexer, buffer>>

KdbGet ==
    /\ pc = "ready"
    /\ \E parent \in ClientParents :
          \E r \in {kdbGet(kdb, <<>>, parent)} :
             KdbReturns("kdbGet", parent, r.ret, r.kdb)

KdbSet ==
    /\ pc = "ready"
    /\ kdb.sets < MaxSets
    /\ \E parent \in ClientParents, ks \in ClientSets :
          \E r \in {kdbSet(kdb, ks, parent)} :
             KdbReturns("kdbSet", <<ks, parent>>, r.ret, [r.kdb EXCEPT !.sets = @ + 1])

PostMove ==
    /\ pc = "ready"
    /\ kdb.moves < MaxMoves
    /\ \E from \in MoveArgs, to \in MoveArgs :
          \E r \in {PostMoveHandler(kdb, from, to)} :
             KdbReturns("PostMoveHandler", <<from, to>>,
                        [status |-> r.status, calls |-> r.calls, newConf |-> r.newConf],
                        [r.kdb EXCEPT !.moves = @ + 1])

NextMove == KdbGet \/ KdbSet \/ PostMove \/ Resume

SpecMove == InitMove /\ [][NextMove]_vars

\* ------------------------------------------- properties of the move handler

MoveReturned == pc = "returned" /\ last.op = "PostMoveHandler"

\* the handler has called kdb.Set
MoveReachedSet == MoveReturned /\ Len(last.ret.calls) = 2

\* C21: a set with parent P commits only if P was got on the handle before;
\* a set without that get fails with needs-get and leaves the stored keys as
\* they are.  Whenever the move handler has called Set, it has called Get
\* with the same root key before, and the Set did not fail with needs-get.
SetOnlyAfterGet ==
    /\ (pc = "returned" /\ last.op = "kdbSet") =>
          /\ last.ret = "committed" => last.arg[2] \in last.pre.got
          /\ last.arg[2] \notin last.pre.got =>
                last.ret = NEEDS_GET /\ kdb.stored = last.pre.stored
    /\ MoveReturned =>
          \A i \in 1..Len(last.ret.calls) :
             last.ret.calls[i].op = "Set" =>
                /\ last.ret.calls[i].ret # NEEDS_GET
                /\ \E j \in 1..(i - 1) :
                      /\ last.ret.calls[j].op = "Get"
                      /\ last.ret.calls[j].parent = last.ret.calls[i].parent

\* the handler has committed below a root nobody had got before it
SetOnlyAfterGetWitness ==
    /\ MoveReachedSet
    /\ last.ret.calls[2].ret = "committed"
    /\ last.ret.calls[2].parent \notin last.pre.got
    /\ kdb.stored # last.pre.stored

KeysOf(ks) == {ks[i] : i \in 1..Len(ks)}

\* the keys stored at or below the from of the last request, before it
MovedKeys == {k \in KeysOf(last.pre.stored) : NameBelowOrSame(last.arg[1], k.name)}

\* the name from + s becomes to + s
MovedName(name) == last.arg[2] \o SubSeq(name, Len(last.arg[1]) + 1, Len(name))

\* C26: the set the handler commits holds, for every key found at or below
\* from, a key of the moved name with the moved key's value, also where a
\* key of that name existed before; the keys got that are neither moved nor
\* collide with a moved name are committed as they were.
MoveCommitsMovedKeys ==
    MoveReachedSet =>
       /\ \A k \in MovedKeys :
             [name |-> MovedName(k.name), value |-> k.value] \in KeysOf(last.ret.newConf)
       /\ \A k \in KeysOf(last.pre.stored) \ MovedKeys :
             (/\ NameBelowOrSame(last.ret.calls[1].parent, k.name)
              /\ k.name \notin {MovedName(m.name) : m \in MovedKeys})
             => k \in KeysOf(last.ret.newConf)

\* -------------------------------------------------- the validation plugin
\* (src/src/plugins/validation/validation.c).  A key of the set handed to
\* the plugin is [value, regex, icase, line, word, message]: the bytes of
\* its value without the closing NUL, the value of its meta check/validation
\* (NoMeta if it has none), and whether it has the metas
\* check/validation/ignorecase, /line, /word and /message.  regcomp and
\* regexec are those of the C library, for patterns that are a literal
\* text, "^" and "$" understood; a "(" does not compile.

NoMeta == <<"NO META">>

Delimiters == {" ", "\t", "\n"}

\* what regcomp and regexec return: REG_NOERROR is 0
REG_NOERROR == "REG_NOERROR"
REG_NOMATCH == "REG_NOMATCH"
REG_EPAREN == "REG_EPAREN"

\* keyString: the value up to its first NUL
keyString(k) == CStr(k.value \o <<NUL>>, 0)

\* the byte as regexec compares it under REG_ICASE
Fold(c, icase) == IF icase /\ c = "A" THEN "a" ELSE c

FoldAll(s, icase) == [i \in 1..Len(s) |-> Fold(s[i], icase)]

\* regcomp: REG_NOERROR, or an error code for a pattern it cannot compile
regcomp(regexString) ==
    IF \E i \in 1..Len(regexString) : regexString[i] = "(" THEN REG_EPAREN ELSE REG_NOERROR

\* the pattern without its anchors
RegexCore(re) ==
    SubSeq(re, IF re # <<>> /\ re[1] = "^" THEN 2 ELSE 1,
               IF re # <<>> /\ re[Len(re)] = "$" THEN Len(re) - 1 ELSE Len(re))

\* regexec: REG_NOERROR if the compiled pattern matches somewhere in string
regexec(re, icase, newline, string) ==
    IF \E i \in 1..(Len(string) + 1) :
          /\ i + Len(RegexCore(re)) - 1 <= Len(string)
          /\ FoldAll(SubSeq(string, i, i + Len(RegexCore(re)) - 1), icase)
                = FoldAll(RegexCore(re), icase)
          /\ \/ re = <<>>
             \/ re[1] # "^"
             \/ i = 1
             \/ newline /\ string[i - 1] = "\n"
          /\ \/ re = <<>>
             \/ re[Len(re)] # "$"
             \/ i + Len(RegexCore(re)) - 1 = Len(string)
             \/ newline /\ string[i + Len(RegexCore(re))] = "\n"
    THEN REG_NOERROR ELSE REG_NOMATCH

\* the least of a set of numbers, or other if the set is empty
LeastOr(S, other) == IF S = {} THEN other ELSE CHOOSE i \in S : \A j \in S : i <= j

\* strtok_r on the text that starts at index pos of buf (from 1), with the
\* delimiters " \t\n": the token, the buffer with a NUL written behind the
\* token, and where the next call goes on
strtok_r(buf, pos) ==
    LET end == LeastOr({i \in pos..Len(buf) : buf[i] = NUL}, Len(buf) + 1)
        start == LeastOr({i \in pos..(end - 1) : buf[i] \notin Delimiters}, end)
        stop == LeastOr({i \in start..(end - 1) : buf[i] \in Delimiters}, end)
    IN IF start = end THEN [token |-> NullStr, buf |-> buf, savePtr |-> end]
       ELSE [token |-> SubSeq(buf, start, stop - 1),
             buf |-> IF stop < end THEN PutByte(buf, stop - 1, NUL) ELSE buf,
             savePtr |-> IF stop < end THEN stop + 1 ELSE end]

\* the loop over the tokens of the value: t is what strtok_r has returned
RECURSIVE WordLoop(_, _, _, _, _)
WordLoop(buf, t, re, icase, newline) ==
    IF IsNull(t.token) THEN [buf |-> t.buf, match |-> FALSE]
    ELSE IF regexec(re, icase, newline, t.token) \notin {REG_NOMATCH, "REG_ESPACE"} THEN [buf |-> t.buf, match |-> TRUE]
    ELSE WordLoop(t.buf, strtok_r(t.buf, t.savePtr), re, icase, newline)

\* ELEKTRA_SET_ERROR (nr, parentKey, text)
ELEKTRA_SET_ERROR(p, nr, text) ==
    [p EXCEPT !.parentKey = [nr |-> nr, text |-> text], !.errors = Append(@, nr)]

\* the text of the error for a value that does not match
MismatchText(cur) == IF cur.message THEN "check/validation/message" ELSE "regerror"

\* the regular expression the plugin compiles for the key cur
RegexString(cur) ==
    IF cur.line \/ cur.word THEN <<"^">> \o cur.regex \o <<"$">> ELSE cur.regex

\* the check of the key cur at the cursor of p, in word mode: done tells
\* whether the call returns here
CheckWords(p, cur, w) ==
    IF w.match
    THEN [p |-> [p EXCEPT !.returned[p.cursor + 1].value = w.buf], done |-> FALSE]
    ELSE [p |-> ELEKTRA_SET_ERROR([p EXCEPT !.returned[p.cursor + 1].value = w.buf],
                                  42, MismatchText(cur)),
          done |-> TRUE]

\* the body of the loop for the key cur at the cursor of p
CheckKey(p, cur) ==
    IF cur.regex = NoMeta THEN [p |-> p, done |-> FALSE]
    ELSE IF regcomp(RegexString(cur)) # REG_NOERROR
    THEN [p |-> ELEKTRA_SET_ERROR(p, 41, "regerror"), done |-> TRUE]
    ELSE IF ~cur.word
    THEN IF regexec(RegexString(cur), cur.icase, cur.line, keyString(cur)) # REG_NOERROR
         THEN [p |-> ELEKTRA_SET_ERROR(p, 42, MismatchText(cur)), done |-> TRUE]
         ELSE [p |-> p, done |-> FALSE]
    ELSE CheckWords(p, cur, WordLoop(cur.value, strtok_r(cur.value, 1),
                                     RegexString(cur), cur.icase, cur.line))

\* (a loop that goes on behind a key that fails, to the last key)
RECURSIVE ValidationLoopToTheEnd(_)
ValidationLoopToTheEnd(p) ==
    IF p.cursor + 1 >= Len(p.returned)
    THEN [p EXCEPT !.cursor = Len(p.returned), !.ret = IF p.errors = <<>> THEN 1 ELSE -1]
    ELSE The({ValidationLoopToTheEnd(c.p) :
                c \in {CheckKey(q, q.returned[q.cursor + 1]) :
                         q \in {[p EXCEPT !.cursor = @ + 1,
                                          !.examined = @ \cup {p.cursor + 1}]}}})

\* while ((cur = ksNext (returned)) != 0): ret, and returned and parentKey
\* after the call; examined are the places of the keys ksNext has returned
RECURSIVE ValidationLoop(_)
ValidationLoop(p) ==
    IF p.cursor + 1 >= Len(p.returned)
    THEN [p EXCEPT !.cursor = Len(p.returned), !.ret = 1]
    ELSE The({IF c.done THEN [c.p EXCEPT !.ret = -1] ELSE ValidationLoop(c.p) :
                c \in {CheckKey(q, q.returned[q.cursor + 1]) :
                         q \in {[p EXCEPT !.cursor = @ + 1,
                                          !.examined = @ \cup {p.cursor + 1}]}}})

\* elektraValidationSet (handle, returned, parentKey)
elektraValidationSet(pl) ==
    ValidationLoop([returned |-> pl.returned, cursor |-> pl.cursor,
                    parentKey |-> pl.parentKey, errors |-> <<>>, examined |-> {},
                    ret |-> 0])

\* ---- the plugin and the caller that hands it a key-set, as a system

ValKey(value, regex, flags) ==
    [value |-> value, regex |-> regex, icase |-> "icase" \in flags,
     line |-> "line" \in flags, word |-> "word" \in flags,
     message |-> "message" \in flags]

\* the keys a key-set for the plugin is made of
ValKeys ==
    { ValKey(Str("b"), NoMeta, {}),
      ValKey(Str("a"), Str("a"), {}),
      ValKey(Str("b"), Str("a"), {"message"}),
      ValKey(Str("a"), Str("(a"), {}),
      ValKey(Str("A"), Str("a"), {"icase"}),
      ValKey(Str("a b"), Str("a"), {"word"}),
      ValKey(Str("b\ta"), Str("a"), {"word"}),
      ValKey(Str("ab b"), Str("a"), {"word"}),
      ValKey(Str("b\na"), Str("a"), {"line"}),
      ValKey(Str("ab"), Str("a"), {"line"}) }

\* the number of keys in the key-set
MaxKeys == 2

NoError == [nr |-> 0, text |-> ""]

InitVal ==
    /\ key = NewKey
    /\ heapFill = NUL
    /\ pc = "ready"
    /\ last = NoCall
    /\ universe = "order"
    /\ KsInit
    /\ kdb = Unused
    /\ plugin \in {[returned |-> ks, cursor |-> -1, parentKey |-> NoError] :
                      ks \in UNION {[1..n -> ValKeys] : n \in 0..MaxKeys}}
    /\ files = Unused
    /\ lexer = Unused
    /\ buffer = Unused

ValFrame ==
    /\ UNCHANGED <<key, heapFill>>
    /\ UNCHANGED ksVars
    /\ UNCHANGED <<kdb, files, lexer, buffer>>

\* the caller moves the cursor of the key-set: ksNext (returned)
ValKsNext ==
    /\ pc = "ready"
    /\ plugin' = [plugin EXCEPT !.cursor = Min(@ + 1, Len(plugin.returned))]
    /\ UNCHANGED <<pc, last>>
    /\ ValFrame

\* ksRewind (returned)
ValKsRewind ==
    /\ pc = "ready"
    /\ plugin.cursor # -1
    /\ plugin' = [plugin EXCEPT !.cursor = -1]
    /\ UNCHANGED <<pc, last>>
    /\ ValFrame

\* the caller calls the plugin with a parentKey that has no error yet
ValidationSet ==
    /\ pc = "ready"
    /\ \E r \in {elektraValidationSet([plugin EXCEPT !.parentKey = NoError])} :
          /\ plugin' = [returned |-> r.returned, cursor |-> r.cursor,
                        parentKey |-> r.parentKey]
          /\ last' = [op |-> "elektraValidationSet", arg |-> plugin.cursor,
                      ret |-> [ret |-> r.ret, errors |-> r.errors, examined |-> r.examined],
                      pre |-> plugin]
    /\ pc' = "returned"
    /\ ValFrame

NextVal == ValKsNext \/ ValKsRewind \/ ValidationSet \/ Resume

SpecVal == InitVal /\ [][NextVal]_vars

\* ---------------------------------------- properties of the validation plugin

ValidationReturned == pc = "returned" /\ last.op = "elektraValidationSet"

\* the words of the text s: its longest pieces without " ", tab and newline
WordsOf(s) ==
    {SubSeq(s, i, j) : <<i, j>> \in
        {w \in (1..Len(s)) \X (1..Len(s)) :
            /\ w[1] <= w[2]
            /\ \A n \in w[1]..w[2] : s[n] \notin Delimiters
            /\ w[1] = 1 \/ s[w[1] - 1] \in Delimiters
            /\ w[2] = Len(s) \/ s[w[2] + 1] \in Delimiters}}

\* the key carries check/validation
Carries(k) == k.regex # NoMeta

\* its regular expression does not compile
FailsToCompile(k) == Carries(k) /\ \E i \in 1..Len(k.regex) : k.regex[i] = "("

\* the value of the key does not match its regular expression: in word
\* mode none of its words does, in line mode none of its lines
FailsToMatch(k) ==
    /\ Carries(k)
    /\ ~FailsToCompile(k)
    /\ IF k.word
       THEN \A w \in WordsOf(keyString(k)) : regexec(RegexString(k), k.icase, k.line, w) # REG_NOERROR
       ELSE regexec(RegexString(k), k.icase, k.line, keyString(k)) # REG_NOERROR

\* the places (from 0) of the keys of the set handed in that fail
FailingPlaces ==
    {i \in 0..(Len(last.pre.returned) - 1) :
        FailsToCompile(last.pre.returned[i + 1]) \/ FailsToMatch(last.pre.returned[i + 1])}

\* those of them that ksNext comes to from the cursor the set is handed in with
FailingPlacesAhead == {i \in FailingPlaces : i > last.pre.cursor}

FirstFailing == CHOOSE i \in FailingPlacesAhead : \A j \in FailingPlacesAhead : i <= j

\* C22: the plugin returns -1 with exactly one error on parentKey, 41 for a
\* regular expression that does not compile and 42 for a value that does
\* not match, at the first key of its iteration that carries
\* check/validation and fails, and examines no key behind it; it returns 1
\* without an error when no key of its iteration fails; a key without the
\* meta never makes it fail.
ValidationStopsAtFirstFailure ==
    ValidationReturned =>
       IF FailingPlacesAhead = {}
       THEN /\ last.ret.ret = 1
            /\ last.ret.errors = <<>>
            /\ plugin.parentKey = NoError
       ELSE /\ last.ret.ret = -1
            /\ Carries(last.pre.returned[FirstFailing + 1])
            /\ last.ret.errors =
                  <<IF FailsToCompile(last.pre.returned[FirstFailing + 1]) THEN 41 ELSE 42>>
            /\ plugin.parentKey.nr = last.ret.errors[1]
            /\ last.ret.examined = (last.pre.cursor + 1)..FirstFailing
            /\ plugin.cursor = FirstFailing

\* a call on a rewound set that went past a key without the meta and
\* stopped with error 42 at the key behind it
ValidationStopsAtFirstFailureWitness ==
    /\ ValidationReturned
    /\ last.pre.cursor = -1
    /\ last.ret.ret = -1
    /\ last.ret.errors = <<42>>
    /\ last.ret.examined = {0, 1}
    /\ ~Carries(last.pre.returned[1])

\* C24: the plugin checks every key that carries check/validation, wherever
\* the cursor of the key-set stands when it is called: with a key that fails
\* anywhere in the set it returns -1.
ValidationChecksEveryKey ==
    ValidationReturned => (FailingPlaces # {} => last.ret.ret = -1)

\* C25: the plugin leaves the value of every key as it was, also of keys
\* checked word by word.
ValidationLeavesValues ==
    ValidationReturned =>
       \A i \in 1..Len(plugin.returned) :
          /\ plugin.returned[i].value = last.pre.returned[i].value
          /\ keyString(plugin.returned[i]) = keyString(last.pre.returned[i])

\* ------------------------------------------------ comparing generated files
\* (src/tests/tests.c, 82-145).  The file system fs gives the content of
\* each file as its bytes, NoFile for a file that cannot be opened.  The
\* lines of the files are shorter than BUFFER_LENGTH, so fgets reads a line
\* at a time.

NoFile == <<"NO FILE">>

\* strrchr: the index (from 1) of the last c in s, 0 if there is none
strrchr(s, c) ==
    IF \E i \in 1..Len(s) : s[i] = c
    THEN CHOOSE i \in 1..Len(s) : s[i] = c /\ \A j \in (i + 1)..Len(s) : s[j] # c
    ELSE 0

\* fgets at offset pos of the file: the line up to and with its newline and
\* the offset behind it, NullStr at the end of the file
fgets(content, pos) ==
    IF pos >= Len(content) THEN [s |-> NullStr, pos |-> pos]
    ELSE LET end == LeastOr({i \in (pos + 1)..Len(content) : content[i] = "\n"}, Len(content))
         IN [s |-> SubSeq(content, pos + 1, end), pos |-> end]

\* the loop of compare_line_files after fgets on forg has returned lorg
RECURSIVE CompareLines(_, _, _, _, _)
CompareLinesGen(org, gen, lorg, lgen, line) ==
    IF IsNull(lgen.s) THEN [exited |-> FALSE, ret |-> 1, line |-> line]
    ELSE IF lorg.s # lgen.s THEN [exited |-> FALSE, ret |-> 0, line |-> line + 1]
    ELSE CompareLines(org, gen, lorg.pos, lgen.pos, line + 1)

\* ... after both fgets
CompareLinesOrg(org, gen, lorg, posgen, line) ==
    IF IsNull(lorg.s) THEN [exited |-> FALSE, ret |-> 1, line |-> line]
    ELSE CompareLinesGen(org, gen, lorg, fgets(gen, posgen), line)

\* while (fgets (bufferorg, ...) && fgets (buffergen, ...))
CompareLines(org, gen, posorg, posgen, line) ==
    CompareLinesOrg(org, gen, fgets(org, posorg), posgen, line)

compare_line_files(fs, filename, genfilename) ==
    IF fs[filename] = NoFile \/ fs[genfilename] = NoFile
    THEN [exited |-> TRUE, ret |-> 0, line |-> 0]
    ELSE CompareLines(fs[filename], fs[genfilename], 0, 0, 0)

\* genfilename as compare_files builds it; dot is the index of the last "."
GenFileName(filename, dot) ==
    SubSeq(filename, 1, dot - 1) \o Str("-gen")
    \o (IF SubSeq(filename, dot, Len(filename)) \in {Str(".xml"), Str(".txt"), Str(".c")}
        THEN SubSeq(filename, dot, Len(filename)) ELSE <<>>)

compare_files(fs, filename) ==
    IF strrchr(filename, ".") = 0 THEN [exited |-> TRUE, ret |-> 0, line |-> 0]
    ELSE compare_line_files(fs, filename, GenFileName(filename, strrchr(filename, ".")))

\* ---- a test that compares its files, as a system

FileNames == {Str("f.txt"), Str("f-gen.txt"), Str("f.ini"), Str("f-gen.ini"), Str("f-gen"),
              Str("f")}

\* the files a test compares
ComparedFiles == {Str("f.txt"), Str("f.ini"), Str("f")}

FileContents == {NoFile, <<>>, Str("a\n"), Str("a\nb\n"), Str("a\nb"), Str("b\n")}

InitCmp ==
    /\ key = NewKey
    /\ heapFill = NUL
    /\ pc = "ready"
    /\ last = NoCall
    /\ universe = "order"
    /\ KsInit
    /\ kdb = Unused
    /\ plugin = Unused
    /\ files \in [FileNames -> FileContents]
    /\ files[Str("f")] = NoFile
    /\ lexer = Unused
    /\ buffer = Unused

\* compare_files (filename) returns, or ends the test by exit_if_fail
CompareFiles ==
    /\ pc = "ready"
    /\ \E filename \in ComparedFiles :
          \E r \in {compare_files(files, filename)} :
             /\ pc' = IF r.exited THEN "exited" ELSE "returned"
             /\ last' = [op |-> "compare_files", arg |-> filename, ret |-> r.ret, pre |-> files]
    /\ UNCHANGED files
    /\ UNCHANGED <<key, heapFill>>
    /\ UNCHANGED ksVars
    /\ UNCHANGED <<kdb, plugin, lexer, buffer>>

NextCmp == CompareFiles \/ Resume

SpecCmp == InitCmp /\ [][NextCmp]_vars

\* ------------------------------------------ properties of compare_files

CompareReturned == pc = "returned" /\ last.op = "compare_files"

\* name-gen.ext for the file name name.ext
GenNameOf(filename) ==
    SubSeq(filename, 1, strrchr(filename, ".") - 1) \o Str("-gen")
    \o SubSeq(filename, strrchr(filename, "."), Len(filename))

\* the number of lines of a file: its newlines, and a last line without one
NumLines(content) ==
    Cardinality({i \in 1..Len(content) : content[i] = "\n"})
    + (IF content # <<>> /\ content[Len(content)] # "\n" THEN 1 ELSE 0)

\* C23: compare_files(name.ext) compares name.ext with name-gen.ext line by
\* line; it returns 1 only if both files have the same number of lines and
\* the same content in each line.
CompareFilesSameLines ==
    (CompareReturned /\ last.ret = 1) =>
       /\ files[GenNameOf(last.arg)] # NoFile
       /\ NumLines(files[last.arg]) = NumLines(files[GenNameOf(last.arg)])
       /\ files[last.arg] = files[GenNameOf(last.arg)]

\* ---------------------------------- the start conditions of the TOML lexer
\* (src/src/plugins/toml/lexer.l, 86-101, 153-217, 460-477).  The lexer is
\* [state, stack, input, misuse]: its start condition, the start-condition
\* stack of flex, the tokens read so far, and whether the stack was popped
\* or inspected while it was empty.  The pieces of input are "k" (a bare
\* key), "v" (a number), "!" (a character no rule but the last one takes),
\* "q" (a double quote), "nl" and = , [ ] { }.

INITIAL == "INITIAL"
MODE_VALUE == "MODE_VALUE"
MODE_INLINE_TABLE == "MODE_INLINE_TABLE"
MODE_ARRAY == "MODE_ARRAY"
MODE_BASIC_STRING == "MODE_BASIC_STRING"

\* the start conditions declared with %s
Inclusive == {INITIAL, MODE_VALUE, MODE_INLINE_TABLE, MODE_ARRAY}

\* yy_push_state (x): the current start condition goes on the stack
yy_push_state(lx, x) == [lx EXCEPT !.stack = Append(@, lx.state), !.state = x]

\* yy_pop_state (): back to the start condition on top of the stack; on an
\* empty stack flex ends the program ("start-condition stack underflow")
yy_pop_state(lx) ==
    IF lx.misuse # "none" THEN lx
    ELSE IF lx.stack = <<>> THEN [lx EXCEPT !.misuse = "pop"]
    ELSE [lx EXCEPT !.state = lx.stack[Len(lx.stack)],
                    !.stack = SubSeq(@, 1, Len(@) - 1)]

\* yy_top_state (): the top of the stack; on an empty stack it reads the
\* element before the stack's memory, which may hold any start condition
TopStates(lx) == IF lx.stack = <<>> THEN Inclusive ELSE {lx.stack[Len(lx.stack)]}

\* the lexer after yy_top_state () was called
Inspected(lx) == IF lx.stack = <<>> THEN [lx EXCEPT !.misuse = "top"] ELSE lx

\* "=" { YY_PUSH(MODE_VALUE); return EQUAL; }
RuleEqual(lx) == yy_push_state(lx, MODE_VALUE)

\* <MODE_VALUE>","
RuleComma(lx) ==
    IF yy_pop_state(lx).misuse = "none" /\ yy_pop_state(lx).state = MODE_ARRAY
    THEN yy_push_state(yy_pop_state(lx), MODE_VALUE)
    ELSE yy_pop_state(lx)

\* <MODE_VALUE>"["
RuleBracketsOpen(lx) == yy_push_state(yy_push_state(lx, MODE_ARRAY), MODE_VALUE)

\* <MODE_VALUE>"]" and <MODE_VALUE>"}"
RuleClose(lx) == yy_pop_state(yy_pop_state(lx))

\* <MODE_VALUE>"{"
RuleCurlyOpen(lx) == yy_push_state(lx, MODE_INLINE_TABLE)

\* <MODE_INLINE_TABLE>"}"
RuleTableClose(lx) == yy_pop_state(lx)

\* (a newline that pops whatever is on top of the stack)
RuleNewlinePopping(lx, top) == IF lx.state # INITIAL THEN yy_pop_state(lx) ELSE lx

\* {newline}, where yy_top_state () has returned top
RuleNewline(lx, top) ==
    IF lx.state # INITIAL /\ top # MODE_ARRAY
    THEN yy_pop_state(Inspected(lx))
    ELSE IF lx.state # INITIAL THEN Inspected(lx) ELSE lx

\* {double_quote}{basic_unescaped}*
RuleStringOpen(lx) == yy_push_state(lx, MODE_BASIC_STRING)

\* <MODE_BASIC_STRING>{double_quote}
RuleStringClose(lx) == yy_pop_state(lx)

\* .|\n { driverError (..., yytext, yy_top_state()); }
RuleUnexpected(lx) == Inspected(lx)

\* the rule that takes the piece of input tok in the start condition of lx:
\* a rule without a start condition is active in the inclusive ones
RuleFor(lx, tok) ==
    IF lx.state = MODE_BASIC_STRING
    THEN (IF tok = "q" THEN "StringClose" ELSE IF tok = "nl" THEN "StringNewline"
          ELSE "StringContent")
    ELSE IF tok = "=" THEN "Equal"
    ELSE IF tok = "nl" THEN "Newline"
    ELSE IF tok = "q" THEN "StringOpen"
    ELSE IF tok = "v" THEN "Plain"
    ELSE IF tok = "k" /\ lx.state \in {INITIAL, MODE_INLINE_TABLE} THEN "Plain"
    ELSE IF tok \in {"[", "]"} /\ lx.state = INITIAL THEN "Plain"
    ELSE IF tok = "," /\ lx.state = MODE_VALUE THEN "Comma"
    ELSE IF tok = "[" /\ lx.state = MODE_VALUE THEN "BracketsOpen"
    ELSE IF tok \in {"]", "}"} /\ lx.state = MODE_VALUE THEN "Close"
    ELSE IF tok = "{" /\ lx.state = MODE_VALUE THEN "CurlyOpen"
    ELSE IF tok = "}" /\ lx.state = MODE_INLINE_TABLE THEN "TableClose"
    ELSE "Unexpected"

\* ---- the grammar of a line "key = value", to tell which input is well-formed

\* what comes behind a value that closes: depends on what it lies in
AfterValue(ctx) ==
    IF ctx = <<>> THEN "after" ELSE IF ctx[Len(ctx)] = "[" THEN "aafter" ELSE "tafter"

Bad == [ctx |-> <<>>, exp |-> "bad"]

Pop(ctx) == SubSeq(ctx, 1, Len(ctx) - 1)

\* the step of the grammar on the piece tok: ctx are the open arrays and
\* inline tables, exp what may come next
GrammarStep(g, tok) ==
    CASE g.exp = "start" /\ tok = "k" -> [g EXCEPT !.exp = "eq"]
      [] g.exp = "start" /\ tok = "nl" -> g
      [] g.exp \in {"eq", "teq"} /\ tok = "=" ->
            [g EXCEPT !.exp = IF g.exp = "eq" THEN "value" ELSE "tvalue"]
      [] g.exp \in {"value", "tvalue", "avalue"} /\ tok = "v" ->
            [g EXCEPT !.exp = AfterValue(g.ctx)]
      [] g.exp \in {"value", "tvalue", "avalue"} /\ tok = "q" -> [g EXCEPT !.exp = "string"]
      [] g.exp = "string" /\ tok = "q" -> [g EXCEPT !.exp = AfterValue(g.ctx)]
      [] g.exp = "string" /\ tok = "k" -> g
      [] g.exp \in {"value", "tvalue", "avalue"} /\ tok = "[" ->
            [ctx |-> Append(g.ctx, "["), exp |-> "avalue"]
      [] g.exp \in {"value", "tvalue", "avalue"} /\ tok = "{" ->
            [ctx |-> Append(g.ctx, "{"), exp |-> "tkey0"]
      [] g.exp \in {"avalue", "aafter"} /\ tok = "nl" -> g
      [] g.exp = "aafter" /\ tok = "," -> [g EXCEPT !.exp = "avalue"]
      [] g.exp \in {"avalue", "aafter"} /\ tok = "]" ->
            [ctx |-> Pop(g.ctx), exp |-> AfterValue(Pop(g.ctx))]
      [] g.exp \in {"tkey0", "tkey"} /\ tok = "k" -> [g EXCEPT !.exp = "teq"]
      [] g.exp = "tafter" /\ tok = "," -> [g EXCEPT !.exp = "tkey"]
      [] g.exp \in {"tkey0", "tafter"} /\ tok = "}" ->
            [ctx |-> Pop(g.ctx), exp |-> AfterValue(Pop(g.ctx))]
      [] g.exp = "after" /\ tok = "nl" -> [g EXCEPT !.exp = "start"]
      [] OTHER -> Bad

\* the grammar after the pieces of input
RECURSIVE Grammar(_)
Grammar(input) ==
    IF input = <<>> THEN [ctx |-> <<>>, exp |-> "start"]
    ELSE GrammarStep(Grammar(SubSeq(input, 1, Len(input) - 1)), input[Len(input)])

\* ---- the lexer reading its input piece by piece, as a system

Pieces == {"k", "v", "!", "q", "nl", "=", ",", "[", "]", "{", "}"}

\* the length of the inputs that are well-formed so far, and of any input
MaxPieces == 11
MaxAnyPieces == 4

NewLexer == [state |-> INITIAL, stack |-> <<>>, input |-> <<>>, misuse |-> "none"]

InitLex ==
    /\ key = NewKey
    /\ heapFill = NUL
    /\ pc = "new"
    /\ last = NoCall
    /\ universe = "order"
    /\ KsInit
    /\ kdb = Unused
    /\ plugin = Unused
    /\ files = Unused
    /\ lexer = NewLexer
    /\ buffer = Unused

LexFrame ==
    /\ UNCHANGED <<key, heapFill, last>>
    /\ UNCHANGED ksVars
    /\ UNCHANGED <<kdb, plugin, files, buffer>>

\* initializeLexer (file): YY_PUSH (INITIAL); yyrestart (file)
InitializeLexer ==
    /\ pc = "new"
    /\ lexer' = yy_push_state(lexer, INITIAL)
    /\ pc' = "ready"
    /\ LexFrame

\* the lexer has read tok with the rule named rule and is now lx; a misuse
\* of the stack may end the program
Lexed(rule, tok, lx) ==
    /\ pc = "ready"
    /\ Len(lexer.input) < MaxPieces
    /\ RuleFor(lexer, tok) = rule
    /\ Len(lexer.input) < MaxAnyPieces \/ Grammar(Append(lexer.input, tok)).exp # "bad"
    /\ lexer' = [lx EXCEPT !.input = Append(@, tok)]
    /\ pc' \in IF lx.misuse = "pop" THEN {"crashed"}
               ELSE IF lx.misuse = "top" THEN {"ready", "crashed"} ELSE {"ready"}
    /\ LexFrame

LexEqual == \E tok \in Pieces : Lexed("Equal", tok, RuleEqual(lexer))

LexComma == \E tok \in Pieces : Lexed("Comma", tok, RuleComma(lexer))

LexBracketsOpen == \E tok \in Pieces : Lexed("BracketsOpen", tok, RuleBracketsOpen(lexer))

LexClose == \E tok \in Pieces : Lexed("Close", tok, RuleClose(lexer))

LexCurlyOpen == \E tok \in Pieces : Lexed("CurlyOpen", tok, RuleCurlyOpen(lexer))

LexTableClose == \E tok \in Pieces : Lexed("TableClose", tok, RuleTableClose(lexer))

LexNewline ==
    \E tok \in Pieces, top \in TopStates(lexer) : Lexed("Newline", tok, RuleNewline(lexer, top))

LexStringOpen == \E tok \in Pieces : Lexed("StringOpen", tok, RuleStringOpen(lexer))

LexStringClose == \E tok \in Pieces : Lexed("StringClose", tok, RuleStringClose(lexer))

\* the rules that leave the start condition and its stack alone: keys and
\* values, "[" and "]" of a table header, and in a string its text and the
\* error for a newline
LexPlain ==
    \E tok \in Pieces, rule \in {"Plain", "StringContent", "StringNewline"} :
       Lexed(rule, tok, lexer)

LexUnexpected == \E tok \in Pieces : Lexed("Unexpected", tok, RuleUnexpected(lexer))

NextLex ==
    \/ InitializeLexer
    \/ LexEqual
    \/ LexComma
    \/ LexBracketsOpen
    \/ LexClose
    \/ LexCurlyOpen
    \/ LexTableClose
    \/ LexNewline
    \/ LexStringOpen
    \/ LexStringClose
    \/ LexPlain
    \/ LexUnexpected

SpecLex == InitLex /\ [][NextLex]_vars

\* -------------------------------------- properties of the start conditions

\* the lexer as initializeLexer leaves it
StartedLexer == yy_push_state(NewLexer, INITIAL)

\* the input read is well-formed so far; the grammar stands at g
WellFormedAt(g) == pc # "new" /\ g = Grammar(lexer.input) /\ g.exp # "bad"

\* C27: behind every well-formed line "key = value", with arrays and inline
\* tables in each other and newlines inside arrays, the lexer is in INITIAL
\* again with the stack as deep as before the line; behind a newline inside
\* an array it is still in MODE_VALUE.
StackBalancedPerLine ==
    \A g \in {Grammar(lexer.input)} :
       WellFormedAt(g) =>
          /\ g.exp = "start" =>
                /\ lexer.state = INITIAL
                /\ lexer.stack = StartedLexer.stack
                /\ lexer.misuse = "none"
          /\ (g.exp \in {"avalue", "aafter"} /\ lexer.input[Len(lexer.input)] = "nl") =>
                lexer.state = MODE_VALUE

\* the line  k = [ nl { k = v } ] nl  has been read: an inline table in an
\* array, behind a newline
StackBalancedPerLineWitness ==
    /\ lexer.input = <<"k", "=", "[", "nl", "{", "k", "=", "v", "}", "]", "nl">>
    /\ lexer.state = INITIAL
    /\ lexer.stack = <<INITIAL>>

\* C28: for every input the lexer never pops its start-condition stack, nor
\* inspects its top, while the stack is empty.
StackNeverUsedEmpty == lexer.misuse = "none"

\* --------------------------------- the string buffers of the TOML lexer
\* (src/src/plugins/toml/lexer.l, 180-281, 485-630).  A Buffer is [data,
\* index, size]; data has size bytes.  A size_t is written as an integer in
\* two's complement: a negative n stands for 2^64 + n, so that sums and
\* differences are those of the code.  The functions work on a run r =
\* [b, outcome, lens]: the buffer, "ok" or how the run ended ("hang": a loop
\* that never ends, "overflow": a write beyond the allocation), and the
\* lengths passed to bufferAddString.

BufferInitialSize == 64

\* a < b for two size_t
SizeLess(a, b) == IF (a < 0) = (b < 0) THEN a < b ELSE b < 0

\* while (size < minSize) size <<= 2;  a size of 64 * 4^k becomes 0 before
\* it reaches a minSize of 2^64 + n, and then the loop goes on for ever
RECURSIVE GrowSize(_, _)
GrowSize(size, minSize) ==
    IF ~SizeLess(size, minSize) THEN [size |-> size, hang |-> FALSE]
    ELSE IF minSize < 0 THEN [size |-> 0, hang |-> TRUE]
    ELSE GrowSize(size * 4, minSize)

\* strncpy (data + index, string, n): n bytes are written, NULs behind the
\* end of string
strncpy(data, index, string, n) ==
    [i \in 1..Len(data) |->
        IF i > index /\ i <= index + n
        THEN (IF i - index <= Len(string) THEN string[i - index] ELSE NUL)
        ELSE data[i]]

NoBuffer == [data |-> <<>>, index |-> 0, size |-> 0]

bufferNew(initial, initialLen) ==
    [data |-> strncpy(Rep(NUL, GrowSize(BufferInitialSize, initialLen).size), 0,
                      initial, initialLen),
     index |-> initialLen,
     size |-> GrowSize(BufferInitialSize, initialLen).size]

\* bufferConsume: the data, handed to the caller
bufferConsume(b) == b.data

\* bufferEnsureSize (buffer, minSize), for a realloc that succeeds, where g
\* is what the loop makes of the size
EnsuredSize(r, g) ==
    IF g.hang THEN [r EXCEPT !.outcome = "hang"]
    ELSE [r EXCEPT !.b.size = g.size,
                   !.b.data = [i \in 1..g.size |->
                                  IF i <= r.b.index /\ i <= Len(r.b.data)
                                  THEN r.b.data[i] ELSE NUL]]

bufferEnsureSize(r, minSize) == EnsuredSize(r, GrowSize(r.b.size, minSize))

\* data[index++] = c behind bufferEnsureSize
PutChar(r, c) ==
    IF r.outcome # "ok" THEN r
    ELSE [r EXCEPT !.b.data = strncpy(@, r.b.index, <<c>>, 1), !.b.index = @ + 1]

bufferAddChar(r, c) ==
    IF r.outcome # "ok" THEN r ELSE PutChar(bufferEnsureSize(r, r.b.index + 1), c)

\* strncpy and index += stringLen behind bufferEnsureSize: a stringLen of
\* 2^64 + n makes strncpy write beyond the allocation
CopyString(r, string, stringLen) ==
    IF r.outcome # "ok" THEN r
    ELSE IF stringLen < 0 THEN [r EXCEPT !.outcome = "overflow"]
    ELSE [r EXCEPT !.b.data = strncpy(@, r.b.index, string, stringLen),
                   !.b.index = @ + stringLen]

bufferAddString(r, string, stringLen) ==
    IF r.outcome # "ok" THEN r
    ELSE CopyString(bufferEnsureSize([r EXCEPT !.lens = Append(@, stringLen)],
                                     r.b.index + stringLen + 1),
                    string, stringLen)

\* the character for an escape code; the code itself for one the switch
\* does not know (unreachable from the rules)
EscapedChar(escapeCode) ==
    CASE escapeCode = "b" -> "BS"
      [] escapeCode = "f" -> "FF"
      [] escapeCode = "n" -> "\n"
      [] escapeCode = "r" -> "\r"
      [] escapeCode = "t" -> "\t"
      [] OTHER -> escapeCode

bufferAddEscaped(r, escapeCode) ==
    IF r.outcome # "ok" THEN r
    ELSE PutChar(bufferEnsureSize(r, r.b.index + 1), EscapedChar(escapeCode))

\* utf8FromUnicode: the bytes of UTF-8 for the code points of the inputs
utf8FromUnicode(hexCode) ==
    CASE hexCode = Str("0041") -> <<"A">>
      [] hexCode = Str("20ac") -> <<"xE2", "x82", "xAC">>
      [] hexCode = Str("0001f600") -> <<"xF0", "x9F", "x98", "x80">>

bufferAddUnicode(r, hexCode, codeLength) ==
    IF r.outcome # "ok" THEN r
    ELSE CopyString(bufferEnsureSize(r, r.b.index + Len(utf8FromUnicode(hexCode)) + 1),
                    utf8FromUnicode(hexCode), Len(utf8FromUnicode(hexCode)))

\* yytext + n
From(yytext, n) == SubSeq(yytext, n + 1, Len(yytext))

\* ---- the rules for strings, on stringBuffer; yytext is the text matched

\* {double_quote}{basic_unescaped}*
RuleBasicStart(yytext) == bufferNew(From(yytext, 1), Len(yytext) - 1)

\* {double_quote}{3}{newline}?
RuleMlStart(yytext) == bufferNew(<<>>, 0)

\* {basic_unescaped}+ and ({basic_unescaped}|{newline})+
RuleUnescaped(r, yytext) == bufferAddString(r, yytext, Len(yytext))

\* {basic_escaped}
RuleEscaped(r, yytext) == bufferAddEscaped(r, yytext[2])

\* {uni4_escape}|{uni8_escape}
RuleUnicode(r, yytext) == bufferAddUnicode(r, From(yytext, 2), Len(yytext) - 2)

\* {double_quote}{1,2}({basic_unescaped})
RuleQuotesUnescaped(r, yytext) == bufferAddString(r, yytext, Len(yytext))

\* {double_quote}{1,2}({basic_escaped})
RuleQuotesEscaped(r, yytext) ==
    bufferAddEscaped(bufferAddString(r, yytext, Len(yytext) - 2), yytext[Len(yytext) - 1])

\* {double_quote}{1,2}({uni4_escape})
RuleQuotesUni4(r, yytext) ==
    bufferAddUnicode(bufferAddString(r, yytext, Len(yytext) - 6),
                     From(yytext, Len(yytext) - 4), 4)

\* {double_quote}{1,2}({uni8_escape})
RuleQuotesUni8(r, yytext) ==
    bufferAddUnicode(bufferAddString(r, yytext, Len(yytext) - 10),
                     From(yytext, Len(yytext) - 8), 8)

\* {double_quote}{1,2}({newline})
RuleQuotesNewline(r, yytext) ==
    bufferAddChar(bufferAddString(r, yytext, Len(yytext) - 10), "\n")

\* ---- the lexer reading a string piece by piece, as a system

Quotes == {Str("\""), Str("\"\"")}
Unescaped == {Str("a"), Str("aaaaaaa")}
Escapes == {Str("\\n"), Str("\\\\")}
Uni4Escapes == {Str("\\u0041"), Str("\\u20ac")}
Uni8Escapes == {Str("\\U0001f600")}
Newlines == {Str("\n"), Str("\r\n")}

\* the lengths of the text behind the quote that opens a basic string
StartLens == {0, 63, 64}

\* the number of rules that run on a buffer
MaxRules == 2

InitBuf ==
    /\ key = NewKey
    /\ heapFill = NUL
    /\ pc = "ready"
    /\ last = NoCall
    /\ universe = "order"
    /\ KsInit
    /\ kdb = Unused
    /\ plugin = Unused
    /\ files = Unused
    /\ lexer = Unused
    /\ buffer = [b |-> NoBuffer, mode |-> INITIAL, rules |-> 0]

BufFrame ==
    /\ UNCHANGED <<key, heapFill>>
    /\ UNCHANGED ksVars
    /\ UNCHANGED <<kdb, plugin, files, lexer>>

\* a string begins: stringBuffer is b, the start condition becomes mode
BufStarted(rule, yytext, mode, b) ==
    /\ pc = "ready"
    /\ buffer' = [b |-> b, mode |-> mode, rules |-> 0]
    /\ last' = [op |-> rule, arg |-> yytext, ret |-> <<>>, pre |-> buffer.b]
    /\ pc' = "ready"
    /\ BufFrame

BufBasicStart ==
    /\ buffer.mode = INITIAL
    /\ \E n \in StartLens :
          \E yytext \in {Str("\"") \o Rep("a", n)} :
             BufStarted("BasicStart", yytext, MODE_BASIC_STRING, RuleBasicStart(yytext))

BufMlStart ==
    /\ buffer.mode = INITIAL
    /\ \E yytext \in {Str("\"\"\"")} :
          BufStarted("MlStart", yytext, "MODE_ML_BASIC_STRING", RuleMlStart(yytext))

\* the run a rule starts with
Run == [b |-> buffer.b, outcome |-> "ok", lens |-> <<>>]

\* a rule has matched yytext inside the string and has run as r tells; a
\* loop that never ends and a write beyond the allocation end the run
BufAdded(rule, yytext, r) ==
    /\ pc = "ready"
    /\ buffer.rules < MaxRules
    /\ buffer' = [buffer EXCEPT !.b = r.b, !.rules = @ + 1]
    /\ last' = [op |-> rule, arg |-> yytext, ret |-> r.lens, pre |-> buffer.b]
    /\ pc' = IF r.outcome = "ok" THEN "ready"
             ELSE IF r.outcome = "hang" THEN "hung" ELSE "crashed"
    /\ BufFrame

InString == buffer.mode \in {MODE_BASIC_STRING, "MODE_ML_BASIC_STRING"}

InMlString == buffer.mode = "MODE_ML_BASIC_STRING"

BufUnescaped ==
    /\ InString
    /\ \E yytext \in Unescaped : BufAdded("Unescaped", yytext, RuleUnescaped(Run, yytext))

BufEscaped ==
    /\ InString
    /\ \E yytext \in Escapes : BufAdded("Escaped", yytext, RuleEscaped(Run, yytext))

BufUnicode ==
    /\ InString
    /\ \E yytext \in Uni4Escapes \cup Uni8Escapes :
          BufAdded("Unicode", yytext, RuleUnicode(Run, yytext))

BufMlNewline ==
    /\ InMlString
    /\ \E yytext \in Newlines : BufAdded("Unescaped", yytext, RuleUnescaped(Run, yytext))

BufQuotesUnescaped ==
    /\ InMlString
    /\ \E q \in Quotes, x \in {Str("a")} :
          BufAdded("QuotesUnescaped", q \o x, RuleQuotesUnescaped(Run, q \o x))

BufQuotesEscaped ==
    /\ InMlString
    /\ \E q \in Quotes, x \in Escapes :
          BufAdded("QuotesEscaped", q \o x, RuleQuotesEscaped(Run, q \o x))

BufQuotesUni4 ==
    /\ InMlString
    /\ \E q \in Quotes, x \in Uni4Escapes :
          BufAdded("QuotesUni4", q \o x, RuleQuotesUni4(Run, q \o x))

BufQuotesUni8 ==
    /\ InMlString
    /\ \E q \in Quotes, x \in Uni8Escapes :
          BufAdded("QuotesUni8", q \o x, RuleQuotesUni8(Run, q \o x))

BufQuotesNewline ==
    /\ InMlString
    /\ \E q \in Quotes, x \in Newlines :
          BufAdded("QuotesNewline", q \o x, RuleQuotesNewline(Run, q \o x))

\* the quotes that close the string: bufferConsume (stringBuffer)
BufClose ==
    /\ pc = "ready"
    /\ InString
    /\ buffer' = [b |-> NoBuffer, mode |-> INITIAL, rules |-> 0]
    /\ last' = [op |-> "bufferConsume", arg |-> <<>>, ret |-> bufferConsume(buffer.b),
                pre |-> buffer.b]
    /\ pc' = "returned"
    /\ BufFrame

NextBuf ==
    \/ BufBasicStart
    \/ BufMlStart
    \/ BufUnescaped
    \/ BufEscaped
    \/ BufUnicode
    \/ BufMlNewline
    \/ BufQuotesUnescaped
    \/ BufQuotesEscaped
    \/ BufQuotesUni4
    \/ BufQuotesUni8
    \/ BufQuotesNewline
    \/ BufClose
    \/ Resume

SpecBuf == InitBuf /\ [][NextBuf]_vars

\* ---- properties of the string buffers

QuoteRules ==
    {"QuotesUnescaped", "QuotesEscaped", "QuotesUni4", "QuotesUni8", "QuotesNewline"}

\* the quotes a rule for quotes has matched, and what follows them
QuotesOf(yytext) == IF yytext[2] = "\"" THEN <<"\"", "\"">> ELSE <<"\"">>

BehindQuotes(yytext) == From(yytext, Len(QuotesOf(yytext)))

\* the bytes a run has added to a buffer that had index bytes
AddedBytes(b, index) == SubSeq(b.data, index + 1, b.index)

NewRun == [b |-> bufferNew(<<>>, 0), outcome |-> "ok", lens |-> <<>>]

\* the bytes a text contributes where no quotes precede it
PlainBytes(text) ==
    IF text[1] # "\\" THEN AddedBytes(RuleUnescaped(NewRun, text).b, 0)
    ELSE IF Len(text) = 2 THEN AddedBytes(RuleEscaped(NewRun, text).b, 0)
    ELSE AddedBytes(RuleUnicode(NewRun, text).b, 0)

\* C29: inside a multi-line basic string a rule for one or two quotes that
\* do not close the string runs to its end, passes bufferAddString only
\* lengths between 0 and the length of the matched text, and adds the quotes
\* followed by exactly the bytes that the text behind them contributes
\* without the quotes.
QuotesCopiedLiterally ==
    last.op \in QuoteRules =>
       /\ pc = "ready"
       /\ \A i \in DOMAIN last.ret : last.ret[i] >= 0 /\ last.ret[i] <= Len(last.arg)
       /\ AddedBytes(buffer.b, last.pre.index)
             = QuotesOf(last.arg) \o PlainBytes(BehindQuotes(last.arg))

\* C30: a string buffer has index < size after bufferNew and after every
\* rule that adds to it, and the data bufferConsume hands out holds a NUL
\* inside its allocation.
BufferIndexBelowSize ==
    /\ (pc = "ready" /\ InString) => buffer.b.index < buffer.b.size
    /\ last.op = "bufferConsume" => \E i \in 1..Len(last.ret) : last.ret[i] = NUL

====
